---- MODULE Spec2Model ----
(***************************************************************************)
(* SnapShelf mobile client: the inventory screen, the drafts screen and    *)
(* the add-item screen, each as a state machine over its React state, the  *)
(* requests it has in flight and the remote store it talks to.             *)
(*                                                                         *)
(* A handler runs with the values of the render in which it was created    *)
(* (its closure); a request in flight keeps that closure and its           *)
(* continuation (the code after the await) runs when the response is       *)
(* delivered.  Strings the code transforms (toLowerCase, trim) are         *)
(* sequences of one-character strings.                                     *)
(***************************************************************************)
EXTENDS Integers, Sequences, FiniteSets, TLC

VARIABLES
    \* ---- remote store (behind services/api.ts)
    srvItems,           \* inventory records held by the server, in list order
    srvDrafts,          \* pending draft records held by the server
    srvNextId,          \* next identity the server hands out
    \* ---- inventory screen, (tabs)/inventory.tsx
    items,              \* useState items
    displayItems,       \* useState displayItems
    loading,            \* useState loading
    refreshing,         \* useState refreshing
    selectedItem,       \* useState selectedItem (Null or an item)
    showActionModal,
    showEditModal,
    showConsumeModal,
    actionLoading,
    editForm,
    consumeQuantity,
    deleteAlert,        \* the open "Delete Item" alert and its closure, or Null
    invCalls,           \* update / delete requests in flight, with their closures
    invFetches,         \* getInventoryItems requests in flight
    invIssued,          \* number of update / delete requests issued so far
    invFetchIssued,     \* number of list requests issued so far
    selectedRow,        \* history: the merged row handleItemPress was given
    searchQuery,        \* useState searchQuery
    selectedCategory,   \* useState selectedCategory (NoCategory or one of CATEGORIES)
    expiryFilter,       \* useState expiryFilter
    sortBy,             \* useState sortBy
    timeZone,           \* the device's offset from UTC, in hours
    nowHour,            \* the hour of the day on the device's clock
    \* ---- drafts screen, (tabs)/drafts.tsx
    drafts,             \* useState drafts
    draftsLoading,      \* useState loading
    draftsRefreshing,   \* useState refreshing
    selectedDraft,      \* useState selectedDraft (Null or a draft)
    confirmData,        \* useState confirmData
    draftAlert,         \* the open "Delete Item" alert and its closure, or Null
    draftCalls,         \* confirm / delete requests in flight, with their closures
    draftFetches,       \* getDraftItems requests in flight
    draftFetchIssued,   \* number of list requests issued so far
    termIssued,         \* history: per draft, the confirm and delete requests issued
    draftRetired,       \* history: drafts whose confirm / delete succeeded and
                        \* that no list response has delivered since
    \* ---- add-item screen, add-item.tsx
    addMounted,         \* the screen is on the navigation stack
    mode,               \* useState mode
    addLoading,         \* useState loading
    detectedItems,      \* useState detectedItems
    editingItem,        \* useState editingItem (Null or a DetectedItem)
    addShowEditModal,   \* useState showEditModal
    manualForm,         \* useState manualForm
    addAlerts,          \* the "Success" alerts waiting for a button, oldest first
    addCalls,           \* ingestImage / addToInventory requests in flight
    addIssued,          \* number of addToInventory sequences started so far
    ingestIssued,       \* number of ingestImage requests issued so far
    detectedConfirmed,  \* history: detected items whose confirmItem succeeded
    addTermIssued,      \* history: draft ids a confirmDraftItem was issued for
    \* ---- barcode scanner of add-item.tsx
    scannedBarcode,     \* useState scannedBarcode (NoBarcode or a barcode)
    barcodeLoading,     \* useState barcodeLoading
    barcodeResult,      \* useState barcodeResult (Null or a BarcodeLookupResult)
    lastScannedRef,     \* useRef lastScannedRef.current
    lookupAlert,        \* the "Lookup Failed" alert is on the screen
    lookupCalls,        \* lookupBarcode requests in flight
    lookupIssued,       \* number of lookupBarcode requests issued so far
    lastLookup,         \* history: the barcode of the latest lookup started
                        \* since the scan was reset, or NoBarcode
    \* ---- recipes screen, (tabs)/recipes.tsx
    recMode,            \* useState mode
    inventoryItems,     \* useState inventoryItems
    selectedIngredients, \* useState selectedIngredients
    recLoading,         \* useState loading
    generating,         \* useState generating
    expiringRecipes,    \* useState expiringRecipes
    manualRecipes,      \* useState manualRecipes
    recAlert,           \* the alert on the screen, or "none"
    recFetches,         \* getInventoryItems requests in flight
    expiringCalls,      \* getExpiringIngredients requests in flight
    genCalls,           \* generateRecipes requests in flight
    recFetchIssued,     \* number of list requests issued so far
    expiringIssued,     \* number of getExpiringIngredients requests issued so far
    genIssued,          \* number of generateRecipes requests issued so far
    srvChanges,         \* number of changes other clients made to the inventory
    toggledSince        \* history: the entries the user toggled in since manual
                        \* mode was entered or the selection cleared

invVars == <<items, displayItems, loading, refreshing, selectedItem,
             showActionModal, showEditModal, showConsumeModal, actionLoading,
             editForm, consumeQuantity, deleteAlert, invCalls, invFetches,
             invIssued, invFetchIssued, selectedRow>>
draftVars == <<drafts, draftsLoading, draftsRefreshing, selectedDraft, confirmData,
               draftAlert, draftCalls, draftFetches, draftFetchIssued, termIssued,
               draftRetired>>
recipeVars == <<recMode, inventoryItems, selectedIngredients, recLoading,
                generating, expiringRecipes, manualRecipes, recAlert, recFetches,
                expiringCalls, genCalls, recFetchIssued, expiringIssued, genIssued,
                srvChanges, toggledSince>>
viewVars == <<searchQuery, selectedCategory, expiryFilter, sortBy, timeZone, nowHour>>
srvVars == <<srvItems, srvDrafts, srvNextId>>
addVars == <<addMounted, mode, addLoading, detectedItems, editingItem,
             addShowEditModal, manualForm, addAlerts, addCalls, addIssued,
             ingestIssued, detectedConfirmed, addTermIssued>>
barcodeVars == <<scannedBarcode, barcodeLoading, barcodeResult, lastScannedRef,
                 lookupAlert, lookupCalls, lookupIssued, lastLookup>>
vars == <<srvVars, invVars, viewVars, draftVars, addVars, recipeVars, barcodeVars>>

(***************************************************************************)
(* Bounds of the model.                                                    *)
(***************************************************************************)
MaxQuantity == 4        \* a request that would store a larger quantity is not issued
MaxInvCalls == 2        \* update / delete requests in flight at once
MaxInvFetches == 1      \* list requests in flight at once
MaxInvIssued == 2       \* update / delete requests issued in one run
MaxInvFetchIssued == 2  \* list requests issued in one run
MaxDraftCalls == 2      \* confirm / delete requests in flight at once
MaxDraftFetches == 1    \* draft list requests in flight at once
MaxDraftIssued == 2     \* confirm / delete requests issued in one run
MaxDraftFetchIssued == 2 \* draft list requests issued in one run
MaxAddCalls == 2        \* ingestImage / addToInventory requests in flight at once
MaxAddIssued == 2       \* addToInventory sequences started in one run
MaxIngestIssued == 1    \* ingestImage requests issued in one run
MaxFormQuantity == 2    \* the + button of a quantity stepper stops here
MaxLen == 3             \* SpecMerge: items in the list given to mergeInventoryItems
MaxMergeQuantity == 2   \* SpecMerge: quantity of one item of that list
MaxViewLen == 3         \* SpecView: items the inventory screen holds
MaxGenIssued == 1       \* generateRecipes requests issued
MaxExpiringIssued == 2  \* getExpiringIngredients requests issued
MaxRecFetchIssued == 2  \* list requests issued by the recipes screen
MaxSrvChanges == 1      \* changes other clients make to the inventory
MaxLookupIssued == 3    \* lookupBarcode requests issued
MaxRaceIssued == 1      \* SpecRefreshRace: update / delete requests issued
MaxLiveFetchIssued == 1 \* SpecLive: list requests issued by the recipes screen
MaxLiveIssued == 1      \* SpecLive: mutations issued by the inventory screen
MaxTabIssued == 1       \* SpecTabs: requests issued on a tab (per draft on the drafts tab)

Null == [null |-> TRUE]

(***************************************************************************)
(* Strings.                                                                *)
(***************************************************************************)
Milk == <<"M", "i", "l", "k">>
milkSp == <<"m", "i", "l", "k", " ">>
dairy == <<"d", "a", "i", "r", "y">>
Pieces == <<"P", "i", "e", "c", "e", "s">>
pieces == <<"p", "i", "e", "c", "e", "s">>
Apple == <<"A", "p", "p", "l", "e">>
Other == <<"O", "t", "h", "e", "r">>
Dairy == <<"D", "a", "i", "r", "y">>
Fruits == <<"F", "r", "u", "i", "t", "s">>
fruits == <<"f", "r", "u", "i", "t", "s">>
other == <<"o", "t", "h", "e", "r">>
itemUnit == <<"i", "t", "e", "m">>
fridge == <<"f", "r", "i", "d", "g", "e">>

LowerChar(c) ==
    CASE c = "M" -> "m"
      [] c = "E" -> "e"
      [] c = "D" -> "d"
      [] c = "P" -> "p"
      [] c = "O" -> "o"
      [] c = "A" -> "a"
      [] c = "F" -> "f"
      [] OTHER -> c

toLowerCase(s) == [i \in 1..Len(s) |-> LowerChar(s[i])]

RECURSIVE trimStart(_)
trimStart(s) ==
    IF Len(s) > 0 /\ s[1] = " " THEN trimStart(Tail(s)) ELSE s

RECURSIVE trimEnd(_)
trimEnd(s) ==
    IF Len(s) > 0 /\ s[Len(s)] = " " THEN trimEnd(SubSeq(s, 1, Len(s) - 1)) ELSE s

trim(s) == trimEnd(trimStart(s))

\* The text of a numeric input field and what parseFloat makes of it.
EditQtyTexts == {"", "0", "1"}
ConsumeQtyTexts == {"", "-1", "2"}

parseFloat(text) ==
    CASE text = "0" -> [nan |-> FALSE, val |-> 0]
      [] text = "1" -> [nan |-> FALSE, val |-> 1]
      [] text = "2" -> [nan |-> FALSE, val |-> 2]
      [] text = "-1" -> [nan |-> FALSE, val |-> -1]
      [] OTHER -> [nan |-> TRUE, val |-> 0]

\* parseFloat(text) || d : NaN and 0 are falsy
parseFloatOr(text, d) ==
    LET p == parseFloat(text) IN IF p.nan \/ p.val = 0 THEN d ELSE p.val

Min(a, b) == IF a <= b THEN a ELSE b

(***************************************************************************)
(* Calendar dates are day numbers; new Date(d).getTime() is in ms.         *)
(***************************************************************************)
MsPerDay == 86400000
\* '' as a date string, and null: the screens only test a date for truthiness
NoDate == 0
\* new Date().toISOString().split('T')[0]
Today == 10
getTime(d) == d * MsPerDay

(***************************************************************************)
(* Sequence helpers (Array.prototype.map / filter / find / sort).          *)
(***************************************************************************)
RECURSIVE SeqFilterId(_, _)
\* s.filter((i) => i.id !== id)
SeqFilterId(s, id) ==
    IF s = <<>> THEN <<>>
    ELSE IF Head(s).id # id THEN <<Head(s)>> \o SeqFilterId(Tail(s), id)
    ELSE SeqFilterId(Tail(s), id)

\* s.map((i) => (i.id === updated.id ? updated : i))
SeqReplaceId(s, updated) ==
    [k \in 1..Len(s) |-> IF s[k].id = updated.id THEN updated ELSE s[k]]

Ids(s) == {s[k].id : k \in 1..Len(s)}

\* s.find((i) => i.id === id), Null when there is none
FindId(s, id) ==
    IF \E k \in 1..Len(s) : s[k].id = id
    THEN s[CHOOSE k \in 1..Len(s) : s[k].id = id /\ \A j \in 1..(k - 1) : s[j].id # id]
    ELSE Null

RECURSIVE InsertByExpiry(_, _)
\* x goes behind every element that does not expire later (the sort is stable)
InsertByExpiry(sorted, x) ==
    IF sorted = <<>> THEN <<x>>
    ELSE IF getTime(Head(sorted).expiry_date) - getTime(x.expiry_date) <= 0
         THEN <<Head(sorted)>> \o InsertByExpiry(Tail(sorted), x)
         ELSE <<x>> \o sorted

RECURSIVE SortByExpiry(_)
\* s.sort((a, b) => new Date(a.expiry_date).getTime() - new Date(b.expiry_date).getTime())
SortByExpiry(s) ==
    IF s = <<>> THEN <<>>
    ELSE InsertByExpiry(SortByExpiry(SubSeq(s, 1, Len(s) - 1)), s[Len(s)])

(***************************************************************************)
(* mergeInventoryItems                                                     *)
(***************************************************************************)
\* `${item.name.toLowerCase().trim()}_${item.expiry_date}`
\* the key without .trim()
mergeKeyUntrimmed(item) == toLowerCase(item.name) \o <<"_">> \o <<item.expiry_date>>

mergeKey(item) == trim(toLowerCase(item.name)) \o <<"_">> \o <<item.expiry_date>>

\* { ...item, mergedIds: [item.id], mergedCount: 1 }
newMergedRow(item) ==
    [id |-> item.id, name |-> item.name, category |-> item.category,
     quantity |-> item.quantity, unit |-> item.unit,
     expiry_date |-> item.expiry_date,
     mergedIds |-> <<item.id>>, mergedCount |-> 1]

RECURSIVE mergeIntoKeepsQuantity(_, _)
\* the forEach step without existing.quantity += item.quantity
mergeIntoKeepsQuantity(rows, item) ==
    IF rows = <<>>
    THEN << newMergedRow(item) >>
    ELSE IF mergeKey(Head(rows)) = mergeKey(item)
         THEN <<[Head(rows) EXCEPT !.mergedIds = Append(@, item.id),
                                   !.mergedCount = @ + 1]>> \o Tail(rows)
         ELSE <<Head(rows)>> \o mergeIntoKeepsQuantity(Tail(rows), item)

\* the forEach step looking only at the row added last instead of the Map
mergeIntoLastRow(rows, item) ==
    IF rows # <<>> /\ mergeKey(rows[Len(rows)]) = mergeKey(item)
    THEN [rows EXCEPT ![Len(rows)] =
            [@ EXCEPT !.quantity = @ + item.quantity,
                      !.mergedIds = Append(@, item.id),
                      !.mergedCount = @ + 1]]
    ELSE Append(rows, newMergedRow(item))

RECURSIVE mergeInto(_, _)
\* one step of the forEach: rows is the Map's values in insertion order
mergeInto(rows, item) ==
    IF rows = <<>>
    THEN << newMergedRow(item) >>
    ELSE IF mergeKey(Head(rows)) = mergeKey(item)
         THEN <<[Head(rows) EXCEPT !.quantity = @ + item.quantity,
                                   !.mergedIds = Append(@, item.id),
                                   !.mergedCount = @ + 1]>> \o Tail(rows)
         ELSE <<Head(rows)>> \o mergeInto(Tail(rows), item)

RECURSIVE mergeInventoryItems(_)
mergeInventoryItems(s) ==
    IF s = <<>> THEN <<>>
    ELSE mergeInto(mergeInventoryItems(SubSeq(s, 1, Len(s) - 1)), s[Len(s)])

\* syncDisplayItems computing the rows once and keeping them afterwards
syncDisplayItemsOnce(its) ==
    IF displayItems # <<>> THEN displayItems
    ELSE IF Len(its) > 0 THEN SortByExpiry(mergeInventoryItems(its)) ELSE <<>>

\* useEffect([items]): displayItems follows every change of items
syncDisplayItems(its) ==
    IF Len(its) > 0 THEN SortByExpiry(mergeInventoryItems(its)) ELSE <<>>

(***************************************************************************)
(* The remote store, as services/api.ts sees it: a request is handled at   *)
(* some moment between its issue and the delivery of its response, and any *)
(* request may fail.                                                       *)
(***************************************************************************)
\* PUT /api/inventory/{id}: the stored record with the submitted fields
srvUpdated(item, data) ==
    [f \in DOMAIN item |-> IF f \in DOMAIN data THEN data[f] ELSE item[f]]

RemoveAt(s, k) == SubSeq(s, 1, k - 1) \o SubSeq(s, k + 1, Len(s))

NewItem(i, n, q, d) ==
    [id |-> i, name |-> n, category |-> dairy, quantity |-> q, unit |-> pieces,
     expiry_date |-> d]

InitialStores ==
    { << NewItem(1, Milk, 2, 10), NewItem(2, milkSp, 2, 10) >> }

(***************************************************************************)
(* Inventory screen                                                        *)
(***************************************************************************)
\* what the user types: the category, the unit and the date of the edit dialog
\* are left as handleEdit filled them in
NameInputs == {milkSp}

uiFree == deleteAlert = Null
noModal == ~showActionModal /\ ~showEditModal /\ ~showConsumeModal
listVisible == ~loading /\ Len(items) > 0 /\ Len(displayItems) > 0

InvCall(kind, op, id, data, q, cSel, cItems, cRow) ==
    [kind |-> kind, op |-> op, id |-> id, data |-> data, q |-> q,
     cSel |-> cSel, cItems |-> cItems, cRow |-> cRow,
     resp |-> "none", result |-> Null]

canIssue == Len(invCalls) < MaxInvCalls /\ invIssued < MaxInvIssued

\* api.getInventoryItems() is issued
startFetch ==
    /\ Len(invFetches) < MaxInvFetches
    /\ invFetchIssued < MaxInvFetchIssued
    /\ invFetches' = Append(invFetches, [resp |-> "none", data |-> <<>>])
    /\ invFetchIssued' = invFetchIssued + 1

\* useFocusEffect: the screen gains focus
focusInventory ==
    /\ uiFree /\ noModal
    /\ startFetch
    /\ UNCHANGED <<barcodeVars, recipeVars, viewVars, addVars, draftVars, srvVars, items, displayItems, loading, refreshing, selectedItem,
                   showActionModal, showEditModal, showConsumeModal, actionLoading,
                   editForm, consumeQuantity, deleteAlert, invCalls, invIssued,
                   selectedRow>>

handleRefresh ==
    /\ uiFree /\ noModal /\ listVisible
    /\ refreshing' = TRUE
    /\ startFetch
    /\ UNCHANGED <<barcodeVars, recipeVars, viewVars, addVars, draftVars, srvVars, items, displayItems, loading, selectedItem,
                   showActionModal, showEditModal, showConsumeModal, actionLoading,
                   editForm, consumeQuantity, deleteAlert, invCalls, invIssued,
                   selectedRow>>

\* the server answers a list request
srvListInventory(k) ==
    /\ k \in 1..Len(invFetches)
    /\ invFetches[k].resp = "none"
    /\ \/ invFetches' = [invFetches EXCEPT ![k] = [resp |-> "ok", data |-> srvItems]]
       \/ invFetches' = [invFetches EXCEPT ![k] = [resp |-> "fail", data |-> <<>>]]
    /\ UNCHANGED <<barcodeVars, recipeVars, viewVars, addVars, draftVars, srvVars, invFetchIssued, items, displayItems, loading, refreshing, selectedItem,
                   showActionModal, showEditModal, showConsumeModal, actionLoading,
                   editForm, consumeQuantity, deleteAlert, invCalls, invIssued,
                   selectedRow>>

\* fetchInventory keeping the local snapshot once there is one
fetchInventoryKeepsLocal(k) ==
    /\ k \in 1..Len(invFetches)
    /\ invFetches[k].resp # "none"
    /\ IF invFetches[k].resp = "ok" /\ items = <<>>
       THEN /\ items' = SortByExpiry(invFetches[k].data)
            /\ displayItems' = syncDisplayItems(items')
       ELSE UNCHANGED <<items, displayItems>>
    /\ loading' = FALSE
    /\ refreshing' = FALSE
    /\ invFetches' = RemoveAt(invFetches, k)
    /\ UNCHANGED <<barcodeVars, recipeVars, viewVars, addVars, draftVars, srvVars, invFetchIssued, selectedItem,
                   showActionModal, showEditModal, showConsumeModal, actionLoading,
                   editForm, consumeQuantity, deleteAlert, invCalls, invIssued,
                   selectedRow>>

\* fetchInventory after the await: try / catch / finally
fetchInventory(k) ==
    /\ k \in 1..Len(invFetches)
    /\ invFetches[k].resp # "none"
    /\ IF invFetches[k].resp = "ok"
       THEN /\ items' = SortByExpiry(invFetches[k].data)
            /\ displayItems' = syncDisplayItems(items')
       ELSE UNCHANGED <<items, displayItems>>
    /\ loading' = FALSE
    /\ refreshing' = FALSE
    /\ invFetches' = RemoveAt(invFetches, k)
    /\ UNCHANGED <<barcodeVars, recipeVars, viewVars, addVars, draftVars, srvVars, invFetchIssued, selectedItem,
                   showActionModal, showEditModal, showConsumeModal, actionLoading,
                   editForm, consumeQuantity, deleteAlert, invCalls, invIssued,
                   selectedRow>>

handleItemPress(row) ==
    /\ uiFree /\ noModal /\ listVisible
    /\ LET originalItem == FindId(items, row.mergedIds[1]) IN
       /\ IF originalItem # Null
          THEN selectedItem' = [originalItem EXCEPT !.quantity = row.quantity]
          ELSE UNCHANGED selectedItem
       /\ selectedRow' = row
    /\ showActionModal' = TRUE
    /\ UNCHANGED <<barcodeVars, recipeVars, viewVars, addVars, draftVars, srvVars, items, displayItems, loading, refreshing,
                   showEditModal, showConsumeModal, actionLoading,
                   editForm, consumeQuantity, deleteAlert, invCalls, invFetches,
                   invFetchIssued, invIssued>>

\* Cancel, the overlay and onRequestClose of the action sheet
closeActionModal ==
    /\ uiFree /\ showActionModal
    /\ showActionModal' = FALSE
    /\ UNCHANGED <<barcodeVars, recipeVars, viewVars, addVars, draftVars, srvVars, items, displayItems, loading, refreshing, selectedItem,
                   showEditModal, showConsumeModal, actionLoading,
                   editForm, consumeQuantity, deleteAlert, invCalls, invFetches,
                   invFetchIssued, invIssued, invFetchIssued, selectedRow>>

\* handleEdit leaving the action sheet open
handleEditKeepsSheet ==
    /\ uiFree /\ showActionModal /\ selectedItem # Null
    /\ editForm' = [name |-> selectedItem.name, category |-> selectedItem.category,
                    quantity |-> selectedItem.quantity, unit |-> selectedItem.unit,
                    expiryDate |-> selectedItem.expiry_date]
    /\ showEditModal' = TRUE
    /\ UNCHANGED <<barcodeVars, recipeVars, viewVars, addVars, draftVars, srvVars, items, displayItems, loading, refreshing, selectedItem,
                   showActionModal, showConsumeModal, actionLoading,
                   consumeQuantity, deleteAlert, invCalls, invFetches,
                   invFetchIssued, invIssued, selectedRow>>

handleEdit ==
    /\ uiFree /\ showActionModal /\ selectedItem # Null
    /\ editForm' = [name |-> selectedItem.name, category |-> selectedItem.category,
                    quantity |-> selectedItem.quantity, unit |-> selectedItem.unit,
                    expiryDate |-> selectedItem.expiry_date]
    /\ showActionModal' = FALSE
    /\ showEditModal' = TRUE
    /\ UNCHANGED <<barcodeVars, recipeVars, viewVars, addVars, draftVars, srvVars, items, displayItems, loading, refreshing, selectedItem,
                   showConsumeModal, actionLoading,
                   consumeQuantity, deleteAlert, invCalls, invFetches,
                   invFetchIssued, invIssued, invFetchIssued, selectedRow>>

\* the fields of the edit dialog
changeEditForm ==
    /\ uiFree /\ showEditModal
    /\ \/ \E n \in NameInputs : editForm' = [editForm EXCEPT !.name = n]
       \/ \E text \in EditQtyTexts :
            editForm' = [editForm EXCEPT !.quantity = parseFloatOr(text, 0)]
    /\ UNCHANGED <<barcodeVars, recipeVars, viewVars, addVars, draftVars, srvVars, items, displayItems, loading, refreshing, selectedItem,
                   showActionModal, showEditModal, showConsumeModal, actionLoading,
                   consumeQuantity, deleteAlert, invCalls, invFetches,
                   invFetchIssued, invIssued, invFetchIssued, selectedRow>>

\* Cancel and onRequestClose of the edit dialog
closeEditModal ==
    /\ uiFree /\ showEditModal
    /\ showEditModal' = FALSE
    /\ UNCHANGED <<barcodeVars, recipeVars, viewVars, addVars, draftVars, srvVars, items, displayItems, loading, refreshing, selectedItem,
                   showActionModal, showConsumeModal, actionLoading,
                   editForm, consumeQuantity, deleteAlert, invCalls, invFetches,
                   invFetchIssued, invIssued, invFetchIssued, selectedRow>>

\* handleSaveEdit up to its await (Save is disabled while actionLoading)
handleSaveEdit ==
    /\ uiFree /\ showEditModal /\ ~actionLoading
    /\ selectedItem # Null
    /\ canIssue
    /\ editForm.quantity <= MaxQuantity
    /\ actionLoading' = TRUE
    /\ invCalls' = Append(invCalls,
         InvCall("edit", "update", selectedItem.id,
                 [name |-> editForm.name,
                  category |-> toLowerCase(editForm.category),
                  quantity |-> editForm.quantity,
                  unit |-> toLowerCase(editForm.unit),
                  expiry_date |-> editForm.expiryDate],
                 0, selectedItem, items, selectedRow))
    /\ invIssued' = invIssued + 1
    /\ UNCHANGED <<barcodeVars, recipeVars, viewVars, addVars, draftVars, srvVars, items, displayItems, loading, refreshing, selectedItem,
                   showActionModal, showEditModal, showConsumeModal,
                   editForm, consumeQuantity, deleteAlert, invFetches, invFetchIssued,
                   selectedRow>>

handleConsume ==
    /\ uiFree /\ showActionModal /\ selectedItem # Null
    /\ consumeQuantity' = 1
    /\ showActionModal' = FALSE
    /\ showConsumeModal' = TRUE
    /\ UNCHANGED <<barcodeVars, recipeVars, viewVars, addVars, draftVars, srvVars, items, displayItems, loading, refreshing, selectedItem,
                   showEditModal, actionLoading,
                   editForm, deleteAlert, invCalls, invFetches,
                   invFetchIssued, invIssued, invFetchIssued, selectedRow>>

\* the quantity field of the consume dialog
changeConsumeQuantity(text) ==
    /\ uiFree /\ showConsumeModal
    /\ LET num == parseFloatOr(text, 0)
           maxQty == IF selectedItem # Null /\ selectedItem.quantity # 0
                     THEN selectedItem.quantity ELSE 1
       IN consumeQuantity' = Min(num, maxQty)
    /\ UNCHANGED <<barcodeVars, recipeVars, viewVars, addVars, draftVars, srvVars, items, displayItems, loading, refreshing, selectedItem,
                   showActionModal, showEditModal, showConsumeModal, actionLoading,
                   editForm, deleteAlert, invCalls, invFetches,
                   invFetchIssued, invIssued, invFetchIssued, selectedRow>>

\* Cancel of the consume dialog
cancelConsume ==
    /\ uiFree /\ showConsumeModal
    /\ showConsumeModal' = FALSE
    /\ selectedItem' = Null
    /\ selectedRow' = Null
    /\ UNCHANGED <<barcodeVars, recipeVars, viewVars, addVars, draftVars, srvVars, items, displayItems, loading, refreshing,
                   showActionModal, showEditModal, actionLoading,
                   editForm, consumeQuantity, deleteAlert, invCalls, invFetches,
                   invFetchIssued, invIssued>>

\* onRequestClose of the consume dialog
closeConsumeModal ==
    /\ uiFree /\ showConsumeModal
    /\ showConsumeModal' = FALSE
    /\ UNCHANGED <<barcodeVars, recipeVars, viewVars, addVars, draftVars, srvVars, items, displayItems, loading, refreshing, selectedItem,
                   showActionModal, showEditModal, actionLoading,
                   editForm, consumeQuantity, deleteAlert, invCalls, invFetches,
                   invFetchIssued, invIssued, invFetchIssued, selectedRow>>

\* confirmConsume with the removal test written remaining < 0
consumeRequestStrictlyNegative(sel, q, its, row) ==
    LET remaining == sel.quantity - q IN
    IF remaining < 0
    THEN InvCall("consume", "delete", sel.id, Null, q, sel, its, row)
    ELSE InvCall("consume", "update", sel.id, [quantity |-> remaining], q, sel, its, row)

\* the request confirmConsume issues: remaining = selectedItem.quantity - consumeQuantity
consumeRequest(sel, q, its, row) ==
    LET remaining == sel.quantity - q IN
    IF remaining <= 0
    THEN InvCall("consume", "delete", sel.id, Null, q, sel, its, row)
    ELSE InvCall("consume", "update", sel.id, [quantity |-> remaining], q, sel, its, row)

\* confirmConsume up to its await (Confirm is disabled while actionLoading)
confirmConsume ==
    /\ uiFree /\ showConsumeModal /\ ~actionLoading
    /\ selectedItem # Null
    /\ canIssue
    /\ selectedItem.quantity - consumeQuantity <= MaxQuantity
    /\ actionLoading' = TRUE
    /\ invCalls' = Append(invCalls,
         consumeRequest(selectedItem, consumeQuantity, items, selectedRow))
    /\ invIssued' = invIssued + 1
    /\ UNCHANGED <<barcodeVars, recipeVars, viewVars, addVars, draftVars, srvVars, items, displayItems, loading, refreshing, selectedItem,
                   showActionModal, showEditModal, showConsumeModal,
                   editForm, consumeQuantity, deleteAlert, invFetches, invFetchIssued,
                   selectedRow>>

\* handleDelete: the "Delete Item" alert opens, its buttons closing over this render
handleDelete ==
    /\ uiFree /\ showActionModal /\ selectedItem # Null
    /\ deleteAlert' = [cSel |-> selectedItem, cItems |-> items, cRow |-> selectedRow]
    /\ UNCHANGED <<barcodeVars, recipeVars, viewVars, addVars, draftVars, srvVars, items, displayItems, loading, refreshing, selectedItem,
                   showActionModal, showEditModal, showConsumeModal, actionLoading,
                   editForm, consumeQuantity, invCalls, invFetches,
                   invFetchIssued, invIssued, invFetchIssued, selectedRow>>

\* the alert's Cancel button
alertCancel ==
    /\ deleteAlert # Null
    /\ deleteAlert' = Null
    /\ UNCHANGED <<barcodeVars, recipeVars, viewVars, addVars, draftVars, srvVars, items, displayItems, loading, refreshing, selectedItem,
                   showActionModal, showEditModal, showConsumeModal, actionLoading,
                   editForm, consumeQuantity, invCalls, invFetches,
                   invFetchIssued, invIssued, invFetchIssued, selectedRow>>

\* the alert's Delete button, up to its await
alertDelete ==
    /\ deleteAlert # Null
    /\ canIssue
    /\ actionLoading' = TRUE
    /\ invCalls' = Append(invCalls,
         InvCall("delete", "delete", deleteAlert.cSel.id, Null, 0,
                 deleteAlert.cSel, deleteAlert.cItems, deleteAlert.cRow))
    /\ invIssued' = invIssued + 1
    /\ deleteAlert' = Null
    /\ UNCHANGED <<barcodeVars, recipeVars, viewVars, addVars, draftVars, srvVars, items, displayItems, loading, refreshing, selectedItem,
                   showActionModal, showEditModal, showConsumeModal,
                   editForm, consumeQuantity, invFetches, invFetchIssued,
                   selectedRow>>

\* the server answers an update or a delete
srvMutateInventory(k) ==
    /\ k \in 1..Len(invCalls)
    /\ invCalls[k].resp = "none"
    /\ LET c == invCalls[k]
           stored == FindId(srvItems, c.id)
       IN
       \/ /\ invCalls' = [invCalls EXCEPT ![k].resp = "fail"]
          /\ UNCHANGED srvItems
       \/ /\ stored # Null
          /\ c.op = "update"
          /\ srvItems' = SeqReplaceId(srvItems, srvUpdated(stored, c.data))
          /\ invCalls' = [invCalls EXCEPT ![k].resp = "ok",
                                          ![k].result = srvUpdated(stored, c.data)]
       \/ /\ stored # Null
          /\ c.op = "delete"
          /\ srvItems' = SeqFilterId(srvItems, c.id)
          /\ invCalls' = [invCalls EXCEPT ![k].resp = "ok"]
    /\ UNCHANGED <<barcodeVars, recipeVars, viewVars, addVars, draftVars, srvDrafts, srvNextId, items, displayItems, loading, refreshing,
                   selectedItem, showActionModal, showEditModal, showConsumeModal,
                   actionLoading, editForm, consumeQuantity, deleteAlert,
                   invFetches, invIssued, invFetchIssued, selectedRow>>

\* what the continuation of a mutation makes of items
itemsAfter(c) ==
    IF c.op = "delete" THEN SeqFilterId(c.cItems, c.cSel.id)
    ELSE SeqReplaceId(c.cItems, c.result)

\* resumeMutation with the catch branch applying the change all the same
resumeMutationAppliesOnFailure(k) ==
    /\ k \in 1..Len(invCalls)
    /\ invCalls[k].resp # "none"
    /\ LET c == invCalls[k] IN
       IF c.resp = "ok" \/ c.op = "delete"
       THEN /\ items' = itemsAfter(c)
            /\ displayItems' = syncDisplayItems(items')
            /\ showEditModal' = IF c.kind = "edit" THEN FALSE ELSE showEditModal
            /\ showConsumeModal' = IF c.kind = "consume" THEN FALSE ELSE showConsumeModal
            /\ showActionModal' = IF c.kind = "delete" THEN FALSE ELSE showActionModal
            /\ selectedItem' = Null
            /\ selectedRow' = Null
       ELSE UNCHANGED <<items, displayItems, showEditModal, showConsumeModal,
                        showActionModal, selectedItem, selectedRow>>
    /\ actionLoading' = FALSE
    /\ invCalls' = RemoveAt(invCalls, k)
    /\ UNCHANGED <<barcodeVars, recipeVars, viewVars, addVars, draftVars, srvVars, loading, refreshing, editForm, consumeQuantity,
                   deleteAlert, invFetches, invFetchIssued, invIssued>>

\* the continuation of a mutation without its finally block
resumeMutationNoFinally(k) ==
    /\ k \in 1..Len(invCalls)
    /\ invCalls[k].resp # "none"
    /\ LET c == invCalls[k] IN
       IF c.resp = "ok"
       THEN /\ items' = itemsAfter(c)
            /\ displayItems' = syncDisplayItems(items')
            /\ showEditModal' = IF c.kind = "edit" THEN FALSE ELSE showEditModal
            /\ showConsumeModal' = IF c.kind = "consume" THEN FALSE ELSE showConsumeModal
            /\ showActionModal' = IF c.kind = "delete" THEN FALSE ELSE showActionModal
            /\ selectedItem' = Null
            /\ selectedRow' = Null
       ELSE UNCHANGED <<items, displayItems, showEditModal, showConsumeModal,
                        showActionModal, selectedItem, selectedRow>>
    /\ actionLoading' = (invCalls[k].resp # "ok")
    /\ invCalls' = RemoveAt(invCalls, k)
    /\ UNCHANGED <<barcodeVars, recipeVars, viewVars, addVars, draftVars, srvVars, loading, refreshing, editForm, consumeQuantity,
                   deleteAlert, invFetches, invFetchIssued, invIssued>>

\* handleSaveEdit / confirmConsume / the alert's onPress after the await
resumeMutation(k) ==
    /\ k \in 1..Len(invCalls)
    /\ invCalls[k].resp # "none"
    /\ LET c == invCalls[k] IN
       IF c.resp = "ok"
       THEN /\ items' = itemsAfter(c)
            /\ displayItems' = syncDisplayItems(items')
            /\ showEditModal' = IF c.kind = "edit" THEN FALSE ELSE showEditModal
            /\ showConsumeModal' = IF c.kind = "consume" THEN FALSE ELSE showConsumeModal
            /\ showActionModal' = IF c.kind = "delete" THEN FALSE ELSE showActionModal
            /\ selectedItem' = Null
            /\ selectedRow' = Null
       ELSE UNCHANGED <<items, displayItems, showEditModal, showConsumeModal,
                        showActionModal, selectedItem, selectedRow>>
    /\ actionLoading' = FALSE
    /\ invCalls' = RemoveAt(invCalls, k)
    /\ UNCHANGED <<barcodeVars, recipeVars, viewVars, addVars, draftVars, srvVars, loading, refreshing, editForm, consumeQuantity,
                   deleteAlert, invFetches, invFetchIssued, invIssued>>

InitInventory ==
    /\ items = <<>>
    /\ displayItems = <<>>
    /\ loading = TRUE
    /\ refreshing = FALSE
    /\ selectedItem = Null
    /\ showActionModal = FALSE
    /\ showEditModal = FALSE
    /\ showConsumeModal = FALSE
    /\ actionLoading = FALSE
    /\ editForm = [name |-> <<>>, category |-> <<>>, quantity |-> 1, unit |-> <<>>,
                   expiryDate |-> 0]
    /\ consumeQuantity = 1
    /\ deleteAlert = Null
    /\ invCalls = <<>>
    /\ invFetches = << [resp |-> "none", data |-> <<>>] >>
    /\ invIssued = 0
    /\ invFetchIssued = 1
    /\ selectedRow = Null

(***************************************************************************)
(* Drafts screen                                                           *)
(***************************************************************************)
\* a DraftItem; a null field is the falsy value of its type (0, <<>>, NoDate):
\* the screens read nullable fields through || and && only
NewDraft(i, n, q, u, c, d, l) ==
    [id |-> i, name |-> n, quantity |-> q, unit |-> u, category |-> c,
     expiration_date |-> d, location |-> l]

InitialDrafts ==
    << NewDraft(1, Apple, 0, <<>>, <<>>, NoDate, <<>>),
       NewDraft(2, Milk, 2, pieces, dairy, 13, fridge) >>

DraftIds == Ids(InitialDrafts)

\* a || b for strings, numbers and dates
orElse(a, falsy, b) == IF a = falsy THEN b ELSE a

ConfirmQtyTexts == {"", "2"}
ConfirmDateTexts == {NoDate, 13}

draftsUiFree == draftAlert = Null /\ selectedDraft = Null
draftsListVisible == ~draftsLoading /\ Len(drafts) > 0

startDraftFetch ==
    /\ Len(draftFetches) < MaxDraftFetches
    /\ draftFetchIssued < MaxDraftFetchIssued
    /\ draftFetches' = Append(draftFetches, [resp |-> "none", data |-> <<>>])
    /\ draftFetchIssued' = draftFetchIssued + 1

\* useFocusEffect: the screen gains focus
focusDrafts ==
    /\ draftsUiFree
    /\ startDraftFetch
    /\ UNCHANGED <<barcodeVars, recipeVars, viewVars, addVars, srvVars, invVars, drafts, draftsLoading, draftsRefreshing,
                   selectedDraft, confirmData, draftAlert, draftCalls, termIssued,
                   draftRetired>>

handleRefreshDrafts ==
    /\ draftsUiFree /\ draftsListVisible
    /\ draftsRefreshing' = TRUE
    /\ startDraftFetch
    /\ UNCHANGED <<barcodeVars, recipeVars, viewVars, addVars, srvVars, invVars, drafts, draftsLoading,
                   selectedDraft, confirmData, draftAlert, draftCalls, termIssued,
                   draftRetired>>

\* the server answers a draft list request
srvListDrafts(k) ==
    /\ k \in 1..Len(draftFetches)
    /\ draftFetches[k].resp = "none"
    /\ \/ draftFetches' = [draftFetches EXCEPT ![k] = [resp |-> "ok", data |-> srvDrafts]]
       \/ draftFetches' = [draftFetches EXCEPT ![k] = [resp |-> "fail", data |-> <<>>]]
    /\ UNCHANGED <<barcodeVars, recipeVars, viewVars, addVars, srvVars, invVars, drafts, draftsLoading, draftsRefreshing,
                   selectedDraft, confirmData, draftAlert, draftCalls,
                   draftFetchIssued, termIssued, draftRetired>>

\* fetchDrafts after the await: try / catch / finally
fetchDrafts(k) ==
    /\ k \in 1..Len(draftFetches)
    /\ draftFetches[k].resp # "none"
    /\ IF draftFetches[k].resp = "ok"
       THEN /\ drafts' = draftFetches[k].data
            /\ draftRetired' = draftRetired \ Ids(draftFetches[k].data)
       ELSE UNCHANGED <<drafts, draftRetired>>
    /\ draftsLoading' = FALSE
    /\ draftsRefreshing' = FALSE
    /\ draftFetches' = RemoveAt(draftFetches, k)
    /\ UNCHANGED <<barcodeVars, recipeVars, viewVars, addVars, srvVars, invVars, selectedDraft, confirmData, draftAlert,
                   draftCalls, draftFetchIssued, termIssued>>

\* handleDelete: the "Delete Item" alert opens, its buttons closing over this render
handleDeleteDraft(draft) ==
    /\ draftsUiFree /\ draftsListVisible
    /\ draftAlert' = [cDraft |-> draft, cDrafts |-> drafts]
    /\ UNCHANGED <<barcodeVars, recipeVars, viewVars, addVars, srvVars, invVars, drafts, draftsLoading, draftsRefreshing,
                   selectedDraft, confirmData, draftCalls, draftFetches,
                   draftFetchIssued, termIssued, draftRetired>>

draftAlertCancel ==
    /\ draftAlert # Null
    /\ draftAlert' = Null
    /\ UNCHANGED <<barcodeVars, recipeVars, viewVars, addVars, srvVars, invVars, drafts, draftsLoading, draftsRefreshing,
                   selectedDraft, confirmData, draftCalls, draftFetches,
                   draftFetchIssued, termIssued, draftRetired>>

DraftCall(kind, id, data, cDrafts) ==
    [kind |-> kind, id |-> id, data |-> data, cDrafts |-> cDrafts, resp |-> "none"]

canIssueDraftCall(id) ==
    /\ Len(draftCalls) < MaxDraftCalls
    /\ id \in DraftIds
    /\ termIssued[1].confirm + termIssued[1].delete
         + termIssued[2].confirm + termIssued[2].delete < MaxDraftIssued

\* the alert's Delete button, up to its await
draftAlertDelete ==
    /\ draftAlert # Null
    /\ canIssueDraftCall(draftAlert.cDraft.id)
    /\ draftCalls' = Append(draftCalls,
         DraftCall("delete", draftAlert.cDraft.id, Null, draftAlert.cDrafts))
    /\ termIssued' = [termIssued EXCEPT ![draftAlert.cDraft.id].delete = @ + 1]
    /\ draftAlert' = Null
    /\ UNCHANGED <<barcodeVars, recipeVars, viewVars, addVars, srvVars, invVars, drafts, draftsLoading, draftsRefreshing,
                   selectedDraft, confirmData, draftFetches,
                   draftFetchIssued, draftRetired>>

openConfirmModal(draft) ==
    /\ draftsUiFree /\ draftsListVisible
    /\ selectedDraft' = draft
    /\ confirmData' =
         [name |-> draft.name,
          category |-> orElse(draft.category, <<>>, other),
          quantity |-> orElse(draft.quantity, 0, 1),
          unit |-> orElse(draft.unit, <<>>, itemUnit),
          storage_location |-> orElse(draft.location, <<>>, fridge),
          expiry_date |-> orElse(draft.expiration_date, NoDate, Today)]
    /\ UNCHANGED <<barcodeVars, recipeVars, viewVars, addVars, srvVars, invVars, drafts, draftsLoading, draftsRefreshing,
                   draftAlert, draftCalls, draftFetches,
                   draftFetchIssued, termIssued, draftRetired>>

\* the quantity and the expiry date fields of the confirm dialog
changeConfirmData ==
    /\ draftAlert = Null /\ selectedDraft # Null
    /\ \/ \E text \in ConfirmQtyTexts :
            confirmData' = [confirmData EXCEPT !.quantity = parseFloatOr(text, 1)]
       \/ \E text \in ConfirmDateTexts :
            confirmData' = [confirmData EXCEPT !.expiry_date = text]
    /\ UNCHANGED <<barcodeVars, recipeVars, viewVars, addVars, srvVars, invVars, drafts, draftsLoading, draftsRefreshing,
                   selectedDraft, draftAlert, draftCalls, draftFetches,
                   draftFetchIssued, termIssued, draftRetired>>

\* Cancel and onRequestClose of the confirm dialog
closeConfirmModal ==
    /\ draftAlert = Null /\ selectedDraft # Null
    /\ selectedDraft' = Null
    /\ UNCHANGED <<barcodeVars, recipeVars, viewVars, addVars, srvVars, invVars, drafts, draftsLoading, draftsRefreshing,
                   confirmData, draftAlert, draftCalls, draftFetches,
                   draftFetchIssued, termIssued, draftRetired>>

\* handleConfirm up to its await
handleConfirm ==
    /\ draftAlert = Null /\ selectedDraft # Null
    /\ canIssueDraftCall(selectedDraft.id)
    /\ draftCalls' = Append(draftCalls,
         DraftCall("confirm", selectedDraft.id, confirmData, drafts))
    /\ termIssued' = [termIssued EXCEPT ![selectedDraft.id].confirm = @ + 1]
    /\ UNCHANGED <<barcodeVars, recipeVars, viewVars, addVars, srvVars, invVars, drafts, draftsLoading, draftsRefreshing,
                   selectedDraft, confirmData, draftAlert, draftFetches,
                   draftFetchIssued, draftRetired>>

\* POST /api/draft-items/{id}/confirm: the inventory record made of the payload
srvConfirmed(id, data) ==
    [id |-> id, name |-> data.name, category |-> data.category,
     quantity |-> data.quantity, unit |-> data.unit,
     expiry_date |-> data.expiry_date]

\* the server answers a confirm or a delete of a draft
srvDraftCall(k) ==
    /\ k \in 1..Len(draftCalls)
    /\ draftCalls[k].resp = "none"
    /\ LET c == draftCalls[k] IN
       \/ /\ draftCalls' = [draftCalls EXCEPT ![k].resp = "fail"]
          /\ UNCHANGED srvVars
       \/ /\ c.id \in Ids(srvDrafts)
          /\ c.kind = "delete"
          /\ srvDrafts' = SeqFilterId(srvDrafts, c.id)
          /\ draftCalls' = [draftCalls EXCEPT ![k].resp = "ok"]
          /\ UNCHANGED <<srvItems, srvNextId>>
       \/ /\ c.id \in Ids(srvDrafts)
          /\ c.kind = "confirm"
          /\ srvDrafts' = SeqFilterId(srvDrafts, c.id)
          /\ srvItems' = Append(srvItems, srvConfirmed(srvNextId, c.data))
          /\ srvNextId' = srvNextId + 1
          /\ draftCalls' = [draftCalls EXCEPT ![k].resp = "ok"]
    /\ UNCHANGED <<barcodeVars, recipeVars, viewVars, addVars, invVars, drafts, draftsLoading, draftsRefreshing,
                   selectedDraft, confirmData, draftAlert, draftFetches,
                   draftFetchIssued, termIssued, draftRetired>>

\* setDrafts(drafts.filter((d) => d.id !== id)) with the drafts of the closure
draftsAfter(c) == SeqFilterId(c.cDrafts, c.id)

\* handleConfirm / the alert's onPress after the await
resumeDraftCall(k) ==
    /\ k \in 1..Len(draftCalls)
    /\ draftCalls[k].resp # "none"
    /\ LET c == draftCalls[k] IN
       IF c.resp = "ok"
       THEN /\ drafts' = draftsAfter(c)
            /\ selectedDraft' = IF c.kind = "confirm" THEN Null ELSE selectedDraft
            /\ draftRetired' = draftRetired \cup {c.id}
       ELSE UNCHANGED <<drafts, selectedDraft, draftRetired>>
    /\ draftCalls' = RemoveAt(draftCalls, k)
    /\ UNCHANGED <<barcodeVars, recipeVars, viewVars, addVars, srvVars, invVars, draftsLoading, draftsRefreshing,
                   confirmData, draftAlert, draftFetches,
                   draftFetchIssued, termIssued>>

InitDrafts ==
    /\ drafts = <<>>
    /\ draftsLoading = TRUE
    /\ draftsRefreshing = FALSE
    /\ selectedDraft = Null
    /\ confirmData = [name |-> <<>>, category |-> <<>>, quantity |-> 1,
                      unit |-> itemUnit, storage_location |-> fridge,
                      expiry_date |-> NoDate]
    /\ draftAlert = Null
    /\ draftCalls = <<>>
    /\ draftFetches = << [resp |-> "none", data |-> <<>>] >>
    /\ draftFetchIssued = 1
    /\ termIssued = [d \in DraftIds |-> [confirm |-> 0, delete |-> 0]]
    /\ draftRetired = {}

NextDrafts ==
    \/ focusDrafts
    \/ handleRefreshDrafts
    \/ \E k \in 1..MaxDraftFetches : srvListDrafts(k)
    \/ \E k \in 1..MaxDraftFetches : fetchDrafts(k)
    \/ \E i \in 1..Len(drafts) : handleDeleteDraft(drafts[i])
    \/ draftAlertCancel
    \/ draftAlertDelete
    \/ \E i \in 1..Len(drafts) : openConfirmModal(drafts[i])
    \/ changeConfirmData
    \/ closeConfirmModal
    \/ handleConfirm
    \/ \E k \in 1..MaxDraftCalls : srvDraftCall(k)
    \/ \E k \in 1..MaxDraftCalls : resumeDraftCall(k)

(***************************************************************************)
(* Add-item screen                                                         *)
(***************************************************************************)
InitialManualForm ==
    [name |-> <<>>, category |-> Other, quantity |-> 1, unit |-> Pieces,
     expiryDate |-> NoDate]

draftToDetected(draft) ==
    [id |-> draft.id,
     name |-> draft.name,
     category |-> orElse(draft.category, <<>>, Other),
     quantity |-> orElse(draft.quantity, 0, 1),
     unit |-> orElse(draft.unit, <<>>, Pieces),
     expiryDate |-> orElse(draft.expiration_date, NoDate, NoDate),
     confirmed |-> FALSE]

\* what the image service may find on a photo: nothing, or two products of
\* which the first carries no date
IngestResults ==
    { <<>>,
      << [name |-> Apple, quantity |-> 0, unit |-> <<>>, category |-> <<>>,
          expiration_date |-> NoDate],
         [name |-> Milk, quantity |-> 2, unit |-> pieces, category |-> dairy,
          expiration_date |-> 13] >> }

ManualNames == {<<" ">>, milkSp}
CalendarDays == {13}

\* null where a barcode is expected
NoBarcode == <<>>

addUiFree == addMounted /\ addAlerts = <<>> /\ ~addShowEditModal /\ ~lookupAlert

addCanIssue == Len(addCalls) < MaxAddCalls

IngestCall ==
    [kind |-> "ingest", phase |-> "ingest", resp |-> "none", data |-> Null,
     found |-> <<>>, draftId |-> 0, cItem |-> Null, cLen |-> 0, live |-> TRUE]

\* api.addToInventory(data) up to its first await, called by a handler whose
\* closure holds item (Null for the manual form) and detectedItems.length
AddCall(data, item, len) ==
    [kind |-> "add", phase |-> "create", resp |-> "none", data |-> data,
     found |-> <<>>, draftId |-> 0, cItem |-> item, cLen |-> len, live |-> TRUE]

\* router.back(): the screen leaves the stack and its state is discarded;
\* what its requests resolve to no longer reaches any state
routerBack ==
    IF addMounted
    THEN /\ addMounted' = FALSE
         /\ mode' = "options"
         /\ addLoading' = FALSE
         /\ detectedItems' = <<>>
         /\ editingItem' = Null
         /\ addShowEditModal' = FALSE
         /\ manualForm' = InitialManualForm
         /\ addCalls' = [k \in 1..Len(addCalls) |-> [addCalls[k] EXCEPT !.live = FALSE]]
         /\ scannedBarcode' = NoBarcode
         /\ barcodeLoading' = FALSE
         /\ barcodeResult' = Null
         /\ lastScannedRef' = NoBarcode
         /\ lastLookup' = NoBarcode
         /\ lookupCalls' = [k \in 1..Len(lookupCalls) |->
                               [lookupCalls[k] EXCEPT !.live = FALSE]]
         /\ UNCHANGED <<lookupAlert, lookupIssued>>
    ELSE UNCHANGED <<addMounted, mode, addLoading, detectedItems, editingItem,
                     addShowEditModal, manualForm, addCalls, barcodeVars>>

\* the screen is pushed on the stack again: a fresh component
openAddItem ==
    /\ ~addMounted /\ addAlerts = <<>>
    /\ addMounted' = TRUE
    /\ UNCHANGED <<barcodeVars, recipeVars, viewVars, srvVars, invVars, draftVars, mode, addLoading, detectedItems,
                   editingItem, addShowEditModal, manualForm, addAlerts, addCalls,
                   addIssued, ingestIssued, detectedConfirmed, addTermIssued>>

handleManualEntry ==
    /\ addUiFree /\ mode = "options"
    /\ mode' = "manual"
    /\ UNCHANGED <<barcodeVars, recipeVars, viewVars, srvVars, invVars, draftVars, addMounted, addLoading, detectedItems,
                   editingItem, addShowEditModal, manualForm, addAlerts, addCalls,
                   addIssued, ingestIssued, detectedConfirmed, addTermIssued>>

\* handleScanImage with a picture chosen: processImage up to its await
processImage ==
    /\ addUiFree /\ mode = "options"
    /\ addCanIssue /\ ingestIssued < MaxIngestIssued
    /\ mode' = "scanning"
    /\ addLoading' = TRUE
    /\ addCalls' = Append(addCalls, IngestCall)
    /\ ingestIssued' = ingestIssued + 1
    /\ UNCHANGED <<barcodeVars, recipeVars, viewVars, srvVars, invVars, draftVars, addMounted, detectedItems,
                   editingItem, addShowEditModal, manualForm, addAlerts,
                   addIssued, detectedConfirmed, addTermIssued>>

\* the drafts the image service stores for what it found
ingestedDrafts(found, firstId) ==
    [i \in 1..Len(found) |->
        NewDraft(firstId + i - 1, found[i].name, found[i].quantity, found[i].unit,
                 found[i].category, found[i].expiration_date, fridge)]

\* the server answers POST /api/ingest/image
srvIngestImage(k) ==
    /\ k \in 1..Len(addCalls)
    /\ addCalls[k].kind = "ingest" /\ addCalls[k].resp = "none"
    /\ \/ /\ addCalls' = [addCalls EXCEPT ![k].resp = "fail"]
          /\ UNCHANGED srvVars
       \/ \E found \in IngestResults :
            LET new == ingestedDrafts(found, srvNextId) IN
            /\ srvDrafts' = srvDrafts \o new
            /\ srvNextId' = srvNextId + Len(new)
            /\ addCalls' = [addCalls EXCEPT ![k].resp = "ok", ![k].found = new]
            /\ UNCHANGED srvItems
    /\ UNCHANGED <<barcodeVars, recipeVars, viewVars, invVars, draftVars, addMounted, mode, addLoading, detectedItems,
                   editingItem, addShowEditModal, manualForm, addAlerts,
                   addIssued, ingestIssued, detectedConfirmed, addTermIssued>>

\* processImage after the await: try / catch / finally
resumeProcessImage(k) ==
    /\ k \in 1..Len(addCalls)
    /\ addCalls[k].kind = "ingest" /\ addCalls[k].resp # "none"
    /\ LET c == addCalls[k] IN
       IF c.live
       THEN /\ IF c.resp = "ok" /\ Len(c.found) > 0
               THEN /\ detectedItems' = [i \in 1..Len(c.found) |-> draftToDetected(c.found[i])]
                    /\ mode' = "detected"
               ELSE /\ mode' = "options"
                    /\ UNCHANGED detectedItems
            /\ addLoading' = FALSE
       ELSE UNCHANGED <<mode, detectedItems, addLoading>>
    /\ addCalls' = RemoveAt(addCalls, k)
    /\ UNCHANGED <<barcodeVars, recipeVars, viewVars, srvVars, invVars, draftVars, addMounted,
                   editingItem, addShowEditModal, manualForm, addAlerts,
                   addIssued, ingestIssued, detectedConfirmed, addTermIssued>>

\* confirmItem without its test of item.expiryDate
confirmItemNoDateCheck(item) ==
    /\ addUiFree /\ mode = "detected" /\ ~addLoading
    /\ addCanIssue /\ addIssued < MaxAddIssued
    /\ addLoading' = TRUE
    /\ addCalls' = Append(addCalls,
         AddCall([name |-> item.name,
                  category |-> toLowerCase(item.category),
                  quantity |-> item.quantity,
                  unit |-> toLowerCase(item.unit),
                  storage_location |-> fridge,
                  expiry_date |-> item.expiryDate],
                 item, Len(detectedItems)))
    /\ addIssued' = addIssued + 1
    /\ UNCHANGED <<barcodeVars, recipeVars, viewVars, srvVars, invVars, draftVars, addMounted, mode, detectedItems,
                   editingItem, addShowEditModal,
                   manualForm, addAlerts, ingestIssued, detectedConfirmed,
                   addTermIssued>>

\* confirmItem up to its await
confirmItem(item) ==
    /\ addUiFree /\ mode = "detected" /\ ~addLoading
    /\ \/ /\ item.expiryDate = NoDate
          /\ editingItem' = item
          /\ addShowEditModal' = TRUE
          /\ UNCHANGED <<addLoading, addCalls, addIssued>>
       \/ /\ item.expiryDate # NoDate
          /\ addCanIssue /\ addIssued < MaxAddIssued
          /\ addLoading' = TRUE
          /\ addCalls' = Append(addCalls,
               AddCall([name |-> item.name,
                        category |-> toLowerCase(item.category),
                        quantity |-> item.quantity,
                        unit |-> toLowerCase(item.unit),
                        storage_location |-> fridge,
                        expiry_date |-> item.expiryDate],
                       item, Len(detectedItems)))
          /\ addIssued' = addIssued + 1
          /\ UNCHANGED <<editingItem, addShowEditModal>>
    /\ UNCHANGED <<barcodeVars, recipeVars, viewVars, srvVars, invVars, draftVars, addMounted, mode, detectedItems,
                   manualForm, addAlerts, ingestIssued, detectedConfirmed,
                   addTermIssued>>

skipItem(item) ==
    /\ addUiFree /\ mode = "detected"
    /\ IF Len(detectedItems) = 1
       THEN routerBack
       ELSE /\ detectedItems' = SeqFilterId(detectedItems, item.id)
            /\ UNCHANGED <<addMounted, mode, addLoading, editingItem,
                           addShowEditModal, manualForm, addCalls>>
    /\ UNCHANGED <<barcodeVars, recipeVars, viewVars, srvVars, invVars, draftVars, addAlerts,
                   addIssued, ingestIssued, detectedConfirmed, addTermIssued>>

\* the pencil of a detected item
editDetectedItem(item) ==
    /\ addUiFree /\ mode = "detected"
    /\ editingItem' = item
    /\ addShowEditModal' = TRUE
    /\ UNCHANGED <<barcodeVars, recipeVars, viewVars, srvVars, invVars, draftVars, addMounted, mode, addLoading,
                   detectedItems, manualForm, addAlerts, addCalls,
                   addIssued, ingestIssued, detectedConfirmed, addTermIssued>>

\* the steppers and the calendar of the edit dialog
changeEditingItem ==
    /\ addMounted /\ addAlerts = <<>> /\ addShowEditModal /\ editingItem # Null
    /\ \/ \E day \in CalendarDays :
            editingItem' = [editingItem EXCEPT !.expiryDate = day]
       \/ /\ editingItem.quantity < MaxFormQuantity
          /\ editingItem' = [editingItem EXCEPT !.quantity = @ + 1]
       \/ editingItem' = [editingItem EXCEPT !.quantity = IF @ - 1 >= 1 THEN @ - 1 ELSE 1]
    /\ UNCHANGED <<barcodeVars, recipeVars, viewVars, srvVars, invVars, draftVars, addMounted, mode, addLoading,
                   detectedItems, addShowEditModal, manualForm, addAlerts, addCalls,
                   addIssued, ingestIssued, detectedConfirmed, addTermIssued>>

\* Cancel of the edit dialog
cancelEditedItem ==
    /\ addMounted /\ addAlerts = <<>> /\ addShowEditModal
    /\ addShowEditModal' = FALSE
    /\ UNCHANGED <<barcodeVars, recipeVars, viewVars, srvVars, invVars, draftVars, addMounted, mode, addLoading,
                   detectedItems, editingItem, manualForm, addAlerts, addCalls,
                   addIssued, ingestIssued, detectedConfirmed, addTermIssued>>

saveEditedItem ==
    /\ addMounted /\ addAlerts = <<>> /\ addShowEditModal
    /\ IF editingItem = Null
       THEN UNCHANGED <<detectedItems, addShowEditModal, editingItem>>
       ELSE /\ detectedItems' = SeqReplaceId(detectedItems, editingItem)
            /\ addShowEditModal' = FALSE
            /\ editingItem' = Null
    /\ UNCHANGED <<barcodeVars, recipeVars, viewVars, srvVars, invVars, draftVars, addMounted, mode, addLoading,
                   manualForm, addAlerts, addCalls,
                   addIssued, ingestIssued, detectedConfirmed, addTermIssued>>

\* the name field, the steppers and the calendar of the manual form
changeManualForm ==
    /\ addUiFree /\ mode = "manual"
    /\ \/ \E text \in ManualNames : manualForm' = [manualForm EXCEPT !.name = text]
       \/ \E day \in CalendarDays : manualForm' = [manualForm EXCEPT !.expiryDate = day]
       \/ /\ manualForm.quantity < MaxFormQuantity
          /\ manualForm' = [manualForm EXCEPT !.quantity = @ + 1]
       \/ manualForm' = [manualForm EXCEPT !.quantity = IF @ - 1 >= 1 THEN @ - 1 ELSE 1]
    /\ UNCHANGED <<barcodeVars, recipeVars, viewVars, srvVars, invVars, draftVars, addMounted, mode, addLoading,
                   detectedItems, editingItem, addShowEditModal, addAlerts, addCalls,
                   addIssued, ingestIssued, detectedConfirmed, addTermIssued>>

\* saveManualEntry up to its await
saveManualEntry ==
    /\ addUiFree /\ mode = "manual" /\ ~addLoading
    /\ IF trim(manualForm.name) = <<>> \/ manualForm.expiryDate = NoDate
       THEN UNCHANGED <<addLoading, addCalls, addIssued>>
       ELSE /\ addCanIssue /\ addIssued < MaxAddIssued
            /\ addLoading' = TRUE
            /\ addCalls' = Append(addCalls,
                 AddCall([name |-> trim(manualForm.name),
                          category |-> toLowerCase(manualForm.category),
                          quantity |-> manualForm.quantity,
                          unit |-> toLowerCase(manualForm.unit),
                          storage_location |-> fridge,
                          expiry_date |-> manualForm.expiryDate],
                         Null, Len(detectedItems)))
            /\ addIssued' = addIssued + 1
    /\ UNCHANGED <<barcodeVars, recipeVars, viewVars, srvVars, invVars, draftVars, addMounted, mode, detectedItems,
                   editingItem, addShowEditModal, manualForm, addAlerts,
                   ingestIssued, detectedConfirmed, addTermIssued>>

handleDone ==
    /\ addUiFree /\ mode = "detected"
    /\ routerBack
    /\ UNCHANGED <<recipeVars, viewVars, srvVars, invVars, draftVars, addAlerts,
                   addIssued, ingestIssued, detectedConfirmed, addTermIssued>>

\* the header's back button
handleBack ==
    /\ addUiFree
    /\ IF mode \in {"manual", "detected", "barcode"}
       THEN /\ mode' = "options"
            /\ detectedItems' = <<>>
            /\ manualForm' = InitialManualForm
            /\ scannedBarcode' = NoBarcode
            /\ barcodeResult' = Null
            /\ lastScannedRef' = NoBarcode
            /\ lastLookup' = NoBarcode
            /\ UNCHANGED <<addMounted, addLoading, editingItem, addShowEditModal,
                           addCalls, barcodeLoading, lookupAlert, lookupCalls,
                           lookupIssued>>
       ELSE routerBack
    /\ UNCHANGED <<recipeVars, viewVars, srvVars, invVars, draftVars, addAlerts,
                   addIssued, ingestIssued, detectedConfirmed, addTermIssued>>

\* the server answers POST /api/draft-items
srvCreateDraft(k) ==
    /\ k \in 1..Len(addCalls)
    /\ addCalls[k].kind = "add" /\ addCalls[k].phase = "create"
    /\ addCalls[k].resp = "none"
    /\ LET d == addCalls[k].data IN
       \/ /\ addCalls' = [addCalls EXCEPT ![k].resp = "fail"]
          /\ UNCHANGED srvVars
       \/ /\ srvDrafts' = Append(srvDrafts,
               NewDraft(srvNextId, d.name, d.quantity, d.unit, d.category,
                        d.expiry_date, d.storage_location))
          /\ srvNextId' = srvNextId + 1
          /\ addCalls' = [addCalls EXCEPT ![k].resp = "ok", ![k].draftId = srvNextId]
          /\ UNCHANGED srvItems
    /\ UNCHANGED <<barcodeVars, recipeVars, viewVars, invVars, draftVars, addMounted, mode, addLoading, detectedItems,
                   editingItem, addShowEditModal, manualForm, addAlerts,
                   addIssued, ingestIssued, detectedConfirmed, addTermIssued>>

\* addToInventory going on to confirmDraftItem whatever createDraftItem answered
addToInventoryConfirmsAnyway(k) ==
    /\ k \in 1..Len(addCalls)
    /\ addCalls[k].kind = "add" /\ addCalls[k].phase = "create"
    /\ addCalls[k].resp # "none"
    /\ addCalls' = [addCalls EXCEPT ![k].phase = "confirm", ![k].resp = "none"]
    /\ addTermIssued' = addTermIssued \cup {addCalls[k].draftId}
    /\ UNCHANGED <<barcodeVars, recipeVars, viewVars, srvVars, invVars, draftVars, addMounted, mode, addLoading,
                   detectedItems, editingItem, addShowEditModal, manualForm,
                   addAlerts, addIssued, ingestIssued, detectedConfirmed>>

\* api.addToInventory after createDraftItem resolved: confirm the draft it made
addToInventory(k) ==
    /\ k \in 1..Len(addCalls)
    /\ addCalls[k].kind = "add" /\ addCalls[k].phase = "create"
    /\ addCalls[k].resp = "ok"
    /\ addCalls' = [addCalls EXCEPT ![k].phase = "confirm", ![k].resp = "none"]
    /\ addTermIssued' = addTermIssued \cup {addCalls[k].draftId}
    /\ UNCHANGED <<barcodeVars, recipeVars, viewVars, srvVars, invVars, draftVars, addMounted, mode, addLoading,
                   detectedItems, editingItem, addShowEditModal, manualForm,
                   addAlerts, addIssued, ingestIssued, detectedConfirmed>>

\* the server answers POST /api/draft-items/{id}/confirm
srvConfirmDraft(k) ==
    /\ k \in 1..Len(addCalls)
    /\ addCalls[k].kind = "add" /\ addCalls[k].phase = "confirm"
    /\ addCalls[k].resp = "none"
    /\ LET c == addCalls[k] IN
       \/ /\ addCalls' = [addCalls EXCEPT ![k].resp = "fail"]
          /\ UNCHANGED srvVars
       \/ /\ c.draftId \in Ids(srvDrafts)
          /\ srvDrafts' = SeqFilterId(srvDrafts, c.draftId)
          /\ srvItems' = Append(srvItems, srvConfirmed(srvNextId, c.data))
          /\ srvNextId' = srvNextId + 1
          /\ addCalls' = [addCalls EXCEPT ![k].resp = "ok"]
    /\ UNCHANGED <<barcodeVars, recipeVars, viewVars, invVars, draftVars, addMounted, mode, addLoading, detectedItems,
                   editingItem, addShowEditModal, manualForm, addAlerts,
                   addIssued, ingestIssued, detectedConfirmed, addTermIssued>>

\* addToInventory has settled: rejected by either request, or resolved
addSettled(c) ==
    /\ c.kind = "add"
    /\ \/ c.phase = "create" /\ c.resp = "fail"
       \/ c.phase = "confirm" /\ c.resp # "none"

\* confirmItem after the await: try / catch / finally
resumeConfirmItem(k) ==
    /\ k \in 1..Len(addCalls)
    /\ addSettled(addCalls[k]) /\ addCalls[k].cItem # Null
    /\ LET c == addCalls[k] IN
       /\ IF c.resp = "ok"
          THEN /\ detectedItems' = IF c.live THEN SeqFilterId(detectedItems, c.cItem.id)
                                            ELSE detectedItems
               /\ detectedConfirmed' = detectedConfirmed \cup {c.cItem.id}
               /\ addAlerts' = IF c.cLen = 1 THEN Append(addAlerts, "added")
                                             ELSE addAlerts
          ELSE UNCHANGED <<detectedItems, detectedConfirmed, addAlerts>>
       /\ addLoading' = IF c.live THEN FALSE ELSE addLoading
    /\ addCalls' = RemoveAt(addCalls, k)
    /\ UNCHANGED <<barcodeVars, recipeVars, viewVars, srvVars, invVars, draftVars, addMounted, mode,
                   editingItem, addShowEditModal, manualForm,
                   addIssued, ingestIssued, addTermIssued>>

\* saveManualEntry after the await: try / catch / finally
resumeSaveManualEntry(k) ==
    /\ k \in 1..Len(addCalls)
    /\ addSettled(addCalls[k]) /\ addCalls[k].cItem = Null
    /\ LET c == addCalls[k] IN
       /\ addAlerts' = IF c.resp = "ok" THEN Append(addAlerts, "saved") ELSE addAlerts
       /\ addLoading' = IF c.live THEN FALSE ELSE addLoading
    /\ addCalls' = RemoveAt(addCalls, k)
    /\ UNCHANGED <<barcodeVars, recipeVars, viewVars, srvVars, invVars, draftVars, addMounted, mode, detectedItems,
                   editingItem, addShowEditModal, manualForm,
                   addIssued, ingestIssued, detectedConfirmed, addTermIssued>>

\* "Add More" of the alert saveManualEntry shows: resetManualForm
resetManualForm ==
    /\ addAlerts # <<>> /\ Head(addAlerts) = "saved"
    /\ addAlerts' = Tail(addAlerts)
    /\ manualForm' = InitialManualForm
    /\ UNCHANGED <<barcodeVars, recipeVars, viewVars, srvVars, invVars, draftVars, addMounted, mode, addLoading,
                   detectedItems, editingItem, addShowEditModal, addCalls,
                   addIssued, ingestIssued, detectedConfirmed, addTermIssued>>

\* "OK" of the alert confirmItem shows, "Done" of the one saveManualEntry shows
alertBack ==
    /\ addAlerts # <<>>
    /\ addAlerts' = Tail(addAlerts)
    /\ routerBack
    /\ UNCHANGED <<recipeVars, viewVars, srvVars, invVars, draftVars,
                   addIssued, ingestIssued, detectedConfirmed, addTermIssued>>

InitAddItem ==
    /\ addMounted = TRUE
    /\ mode = "options"
    /\ addLoading = FALSE
    /\ detectedItems = <<>>
    /\ editingItem = Null
    /\ addShowEditModal = FALSE
    /\ manualForm = InitialManualForm
    /\ addAlerts = <<>>
    /\ addCalls = <<>>
    /\ addIssued = 0
    /\ ingestIssued = 0
    /\ detectedConfirmed = {}
    /\ addTermIssued = {}

\* the barcodes the camera may report
Barcodes == {<<"7", "1">>, <<"7", "2">>}

\* what the lookup service may answer for a barcode: a product of the
\* database, or a name only
BarcodeResults(data) ==
    { [barcode |-> data, name |-> Milk, category |-> Dairy, predicted_expiry |-> 13,
       found_in_database |-> TRUE],
      [barcode |-> data, name |-> Milk, category |-> <<>>, predicted_expiry |-> NoDate,
       found_in_database |-> FALSE] }

\* api.lookupBarcode(data) up to its await
LookupCall(data) == [data |-> data, resp |-> "none", result |-> Null, live |-> TRUE]

\* "Scan Barcode" of the options, camera permission granted
handleScanBarcode ==
    /\ addUiFree /\ mode = "options"
    /\ scannedBarcode' = NoBarcode
    /\ barcodeResult' = Null
    /\ barcodeLoading' = FALSE
    /\ lastScannedRef' = NoBarcode
    /\ lastLookup' = NoBarcode
    /\ mode' = "barcode"
    /\ UNCHANGED <<recipeVars, viewVars, srvVars, invVars, draftVars, addMounted,
                   addLoading, detectedItems, editingItem, addShowEditModal,
                   manualForm, addAlerts, addCalls, addIssued, ingestIssued,
                   detectedConfirmed, addTermIssued, lookupAlert, lookupCalls,
                   lookupIssued>>

\* the camera callback starting a lookup whenever none is shown as loading
handleBarcodeScannedNoRefCheck(data) ==
    /\ addUiFree /\ mode = "barcode"
    /\ ~barcodeLoading
    /\ lookupIssued < MaxLookupIssued
    /\ lastScannedRef' = data
    /\ scannedBarcode' = data
    /\ barcodeLoading' = TRUE
    /\ lookupCalls' = Append(lookupCalls, LookupCall(data))
    /\ lookupIssued' = lookupIssued + 1
    /\ lastLookup' = data
    /\ UNCHANGED <<recipeVars, viewVars, srvVars, invVars, draftVars, addVars,
                   barcodeResult, lookupAlert>>

\* the camera reports a barcode: handleBarcodeScanned up to its await
handleBarcodeScanned(data) ==
    /\ addUiFree /\ mode = "barcode"
    /\ ~(lastScannedRef = data \/ barcodeLoading)
    /\ lookupIssued < MaxLookupIssued
    /\ lastScannedRef' = data
    /\ scannedBarcode' = data
    /\ barcodeLoading' = TRUE
    /\ lookupCalls' = Append(lookupCalls, LookupCall(data))
    /\ lookupIssued' = lookupIssued + 1
    /\ lastLookup' = data
    /\ UNCHANGED <<recipeVars, viewVars, srvVars, invVars, draftVars, addVars,
                   barcodeResult, lookupAlert>>

\* the lookup service answers
srvLookupBarcode(k) ==
    /\ k \in 1..Len(lookupCalls)
    /\ lookupCalls[k].resp = "none"
    /\ \/ \E r \in BarcodeResults(lookupCalls[k].data) :
            lookupCalls' = [lookupCalls EXCEPT ![k].resp = "ok", ![k].result = r]
       \/ lookupCalls' = [lookupCalls EXCEPT ![k].resp = "fail"]
    /\ UNCHANGED <<recipeVars, viewVars, srvVars, invVars, draftVars, addVars,
                   scannedBarcode, barcodeLoading, barcodeResult, lastScannedRef,
                   lookupAlert, lookupIssued, lastLookup>>

\* handleBarcodeScanned after the await
resumeBarcodeScanned(k) ==
    /\ k \in 1..Len(lookupCalls)
    /\ lookupCalls[k].resp # "none"
    /\ ~lookupAlert
    /\ IF lookupCalls[k].live
       THEN /\ IF lookupCalls[k].resp = "ok"
               THEN barcodeResult' = lookupCalls[k].result /\ UNCHANGED lookupAlert
               ELSE barcodeResult' = Null /\ lookupAlert' = TRUE
            /\ barcodeLoading' = FALSE
       ELSE /\ lookupAlert' = (lookupCalls[k].resp = "fail")
            /\ UNCHANGED <<barcodeResult, barcodeLoading>>
    /\ lookupCalls' = RemoveAt(lookupCalls, k)
    /\ UNCHANGED <<recipeVars, viewVars, srvVars, invVars, draftVars, addVars,
                   scannedBarcode, lastScannedRef, lookupIssued, lastLookup>>

\* "OK" of the "Lookup Failed" alert
dismissLookupAlert ==
    /\ lookupAlert
    /\ lookupAlert' = FALSE
    /\ UNCHANGED <<recipeVars, viewVars, srvVars, invVars, draftVars, addVars,
                   scannedBarcode, barcodeLoading, barcodeResult, lastScannedRef,
                   lookupCalls, lookupIssued, lastLookup>>

\* "Use" of the barcode panel
useBarcodeResult ==
    /\ addUiFree /\ mode = "barcode"
    /\ barcodeResult # Null
    /\ detectedItems' =
         << [id |-> <<"barcode-">> \o barcodeResult.barcode,
             name |-> barcodeResult.name,
             category |-> orElse(barcodeResult.category, <<>>, Other),
             quantity |-> 1,
             unit |-> Pieces,
             expiryDate |-> barcodeResult.predicted_expiry,
             confirmed |-> FALSE] >>
    /\ mode' = "detected"
    /\ UNCHANGED <<barcodeVars, recipeVars, viewVars, srvVars, invVars, draftVars,
                   addMounted, addLoading, editingItem, addShowEditModal,
                   manualForm, addAlerts, addCalls, addIssued, ingestIssued,
                   detectedConfirmed, addTermIssued>>

\* "Scan" of the barcode panel
scanAnotherBarcode ==
    /\ addUiFree /\ mode = "barcode"
    /\ scannedBarcode # NoBarcode /\ ~barcodeLoading
    /\ scannedBarcode' = NoBarcode
    /\ barcodeResult' = Null
    /\ lastScannedRef' = NoBarcode
    /\ lastLookup' = NoBarcode
    /\ UNCHANGED <<recipeVars, viewVars, srvVars, invVars, draftVars, addVars,
                   barcodeLoading, lookupAlert, lookupCalls, lookupIssued>>

\* the barcode scanner as useState and useRef leave it
InitBarcode ==
    /\ scannedBarcode = NoBarcode
    /\ barcodeLoading = FALSE
    /\ barcodeResult = Null
    /\ lastScannedRef = NoBarcode
    /\ lookupAlert = FALSE
    /\ lookupCalls = <<>>
    /\ lookupIssued = 0
    /\ lastLookup = NoBarcode

NextAddItem ==
    \/ openAddItem
    \/ handleManualEntry
    \/ processImage
    \/ \E k \in 1..MaxAddCalls : srvIngestImage(k)
    \/ \E k \in 1..MaxAddCalls : resumeProcessImage(k)
    \/ \E i \in 1..Len(detectedItems) : confirmItem(detectedItems[i])
    \/ \E i \in 1..Len(detectedItems) : skipItem(detectedItems[i])
    \/ \E i \in 1..Len(detectedItems) : editDetectedItem(detectedItems[i])
    \/ changeEditingItem
    \/ cancelEditedItem
    \/ saveEditedItem
    \/ changeManualForm
    \/ saveManualEntry
    \/ handleDone
    \/ handleBack
    \/ \E k \in 1..MaxAddCalls : srvCreateDraft(k)
    \/ \E k \in 1..MaxAddCalls : addToInventory(k)
    \/ \E k \in 1..MaxAddCalls : srvConfirmDraft(k)
    \/ \E k \in 1..MaxAddCalls : resumeConfirmItem(k)
    \/ \E k \in 1..MaxAddCalls : resumeSaveManualEntry(k)
    \/ resetManualForm
    \/ alertBack

\* the recipes screen as useState and the first focus leave it
InitRecipes ==
    /\ recMode = "expiring"
    /\ inventoryItems = <<>>
    /\ selectedIngredients = <<>>
    /\ recLoading = TRUE
    /\ generating = FALSE
    /\ expiringRecipes = <<>>
    /\ manualRecipes = <<>>
    /\ recAlert = "none"
    /\ recFetches = << [resp |-> "none", data |-> <<>>] >>
    /\ expiringCalls = <<>>
    /\ genCalls = <<>>
    /\ recFetchIssued = 1
    /\ expiringIssued = 0
    /\ genIssued = 0
    /\ srvChanges = 0
    /\ toggledSince = <<>>

\* null as selectedCategory: the screen only tests it for truthiness
NoCategory == <<>>

\* the filters of the inventory screen as useState leaves them
InitFilters ==
    /\ searchQuery = <<>>
    /\ selectedCategory = NoCategory
    /\ expiryFilter = "all"
    /\ sortBy = "expiry"

Init ==
    /\ srvItems \in InitialStores
    /\ srvDrafts = InitialDrafts
    /\ srvNextId = 3
    /\ InitInventory
    /\ InitFilters
    /\ InitRecipes
    /\ timeZone = 0
    /\ nowHour = 0
    /\ InitDrafts
    /\ InitAddItem
    /\ InitBarcode

NextInventory ==
    \/ focusInventory
    \/ handleRefresh
    \/ \E k \in 1..MaxInvFetches : srvListInventory(k)
    \/ \E k \in 1..MaxInvFetches : fetchInventory(k)
    \/ \E row \in {displayItems[i] : i \in 1..Len(displayItems)} : handleItemPress(row)
    \/ closeActionModal
    \/ handleEdit
    \/ changeEditForm
    \/ closeEditModal
    \/ handleSaveEdit
    \/ handleConsume
    \/ \E text \in ConsumeQtyTexts : changeConsumeQuantity(text)
    \/ cancelConsume
    \/ closeConsumeModal
    \/ confirmConsume
    \/ handleDelete
    \/ alertCancel
    \/ alertDelete
    \/ \E k \in 1..MaxInvCalls : srvMutateInventory(k)
    \/ \E k \in 1..MaxInvCalls : resumeMutation(k)

SpecInventory == Init /\ [][NextInventory]_vars

SpecDrafts == Init /\ [][NextDrafts]_vars

SpecAddItem == Init /\ [][NextAddItem]_vars

\* a session on one of the two tabs, the other one left as it was mounted
(***************************************************************************)
(* mergeInventoryItems as a function of its argument: the inventory screen *)
(* holding any list of items with distinct ids, and the effect that merges *)
(* it into displayItems.                                                   *)
(***************************************************************************)
MergeNames == {Milk, milkSp, Apple}
MergeDates == {Today, 13}
MergeQuantities == 1..MaxMergeQuantity

MergeInputs ==
    UNION { { [i \in 1..n |-> NewItem(i, f[i][1], f[i][2], f[i][3])] :
              f \in [1..n -> MergeNames \X MergeQuantities \X MergeDates] } :
            n \in 0..MaxLen }

InitMerge ==
    /\ srvItems \in InitialStores
    /\ srvDrafts = InitialDrafts
    /\ srvNextId = 3
    /\ InitDrafts
    /\ InitAddItem
    /\ InitBarcode
    /\ InitFilters
    /\ InitRecipes
    /\ timeZone = 0
    /\ nowHour = 0
    /\ items \in MergeInputs
    /\ displayItems = <<>>
    /\ loading = FALSE
    /\ refreshing = FALSE
    /\ selectedItem = Null
    /\ showActionModal = FALSE
    /\ showEditModal = FALSE
    /\ showConsumeModal = FALSE
    /\ actionLoading = FALSE
    /\ editForm = [name |-> <<>>, category |-> <<>>, quantity |-> 1, unit |-> <<>>,
                   expiryDate |-> 0]
    /\ consumeQuantity = 1
    /\ deleteAlert = Null
    /\ invCalls = <<>>
    /\ invFetches = <<>>
    /\ invIssued = 0
    /\ invFetchIssued = 0
    /\ selectedRow = Null

\* useEffect([items]) run for the list the screen holds
mergeEffect ==
    /\ items # <<>> /\ displayItems = <<>>
    /\ displayItems' = syncDisplayItems(items)
    /\ UNCHANGED <<barcodeVars, recipeVars, viewVars, addVars, draftVars, srvVars, items, loading, refreshing,
                   selectedItem, showActionModal, showEditModal, showConsumeModal,
                   actionLoading, editForm, consumeQuantity, deleteAlert, invCalls,
                   invFetches, invIssued, invFetchIssued, selectedRow>>

NextMerge == mergeEffect

SpecMerge == InitMerge /\ [][NextMerge]_vars

(***************************************************************************)
(* The list the inventory screen shows: getDaysUntilExpiry, the status     *)
(* buckets and filteredAndSortedItems, over any list the screen can hold.  *)
(***************************************************************************)
MsPerHour == MsPerDay \div 24
TimeZones == {-5, 0, 2}
NowHours == {0, 23}

\* new Date(): the device's clock shows day Today, hour nowHour
now == Today * MsPerDay + (nowHour - timeZone) * MsPerHour

\* date.setHours(0, 0, 0, 0): midnight of the day the instant falls in on the
\* device's clock
setHours0(t) ==
    ((t + timeZone * MsPerHour) \div MsPerDay) * MsPerDay - timeZone * MsPerHour

\* Math.ceil(a / b), b > 0
ceilDiv(a, b) == -((-a) \div b)

\* new Date(expiryDate) of a date-only string is midnight UTC (getTime)
getDaysUntilExpiry(expiryDate) ==
    LET today == setHours0(now)
        expiry == setHours0(getTime(expiryDate))
        diffTime == expiry - today
    IN ceilDiv(diffTime, MsPerDay)

\* the three-way test of getStatusCounts
statusOf(days) ==
    IF days < 0 THEN "expired" ELSE IF days <= 3 THEN "expiringSoon" ELSE "fresh"

\* String.prototype.includes
includes(str, q) ==
    \E i \in 0..(Len(str) - Len(q)) : SubSeq(str, i + 1, i + Len(q)) = q

\* String.prototype.localeCompare: letters in alphabetical order whatever their
\* case, a space before every letter, a prefix before the longer string, and
\* between strings that differ in case only, lower case first
Alphabet ==
    <<" ", "a", "b", "c", "d", "e", "f", "g", "h", "i", "j", "k", "l", "m",
      "n", "o", "p", "q", "r", "s", "t", "u", "v", "w", "x", "y", "z">>

CollationRank(c) == CHOOSE i \in 1..Len(Alphabet) : Alphabet[i] = LowerChar(c)

RECURSIVE comparePrimary(_, _)
comparePrimary(a, b) ==
    IF a = <<>> /\ b = <<>> THEN 0
    ELSE IF a = <<>> THEN -1
    ELSE IF b = <<>> THEN 1
    ELSE IF CollationRank(Head(a)) < CollationRank(Head(b)) THEN -1
    ELSE IF CollationRank(Head(a)) > CollationRank(Head(b)) THEN 1
    ELSE comparePrimary(Tail(a), Tail(b))

RECURSIVE compareCase(_, _)
compareCase(a, b) ==
    IF a = <<>> \/ b = <<>> THEN 0
    ELSE IF Head(a) = Head(b) THEN compareCase(Tail(a), Tail(b))
    ELSE IF LowerChar(Head(a)) = Head(a) THEN -1 ELSE 1

localeCompare(a, b) ==
    IF comparePrimary(a, b) # 0 THEN comparePrimary(a, b) ELSE compareCase(a, b)

\* the comparator of result.sort
compareRows(a, b, key) ==
    CASE key = "name" -> localeCompare(a.name, b.name)
      [] key = "category" ->
           IF localeCompare(a.category, b.category) # 0
           THEN localeCompare(a.category, b.category)
           ELSE getTime(a.expiry_date) - getTime(b.expiry_date)
      [] OTHER -> getTime(a.expiry_date) - getTime(b.expiry_date)

RECURSIVE insertRow(_, _, _)
\* x goes behind every element the comparator does not put after it
insertRow(sorted, x, key) ==
    IF sorted = <<>> THEN <<x>>
    ELSE IF compareRows(Head(sorted), x, key) <= 0
         THEN <<Head(sorted)>> \o insertRow(Tail(sorted), x, key)
         ELSE <<x>> \o sorted

\* result.sort leaving the rows in the order it found them
sortRowsKeepsOrder(s, key) == s

RECURSIVE sortRowsFirstTwo(_, _)
\* result.sort keeping the first two rows of the sorted list only
sortRowsFirstTwo(s, key) ==
    LET sorted == IF s = <<>> THEN <<>>
                  ELSE insertRow(sortRowsFirstTwo(SubSeq(s, 1, Len(s) - 1), key),
                                 s[Len(s)], key)
    IN SubSeq(sorted, 1, Min(2, Len(sorted)))

RECURSIVE sortRows(_, _)
\* result.sort((a, b) => ...) for the given sortBy
sortRows(s, key) ==
    IF s = <<>> THEN <<>>
    ELSE insertRow(sortRows(SubSeq(s, 1, Len(s) - 1), key), s[Len(s)], key)

\* the search filter
searchFilter(rows, text) ==
    IF trim(text) # <<>>
    THEN LET query == trim(toLowerCase(text))
             Test(item) == includes(toLowerCase(item.name), query)
         IN SelectSeq(rows, Test)
    ELSE rows

\* the category filter
categoryFilter(rows, cat) ==
    IF cat # NoCategory
    THEN LET Test(item) == toLowerCase(item.category) = toLowerCase(cat)
         IN SelectSeq(rows, Test)
    ELSE rows

\* the expiry status filter
expiryStatusFilter(rows, status) ==
    IF status # "all"
    THEN LET Test(item) ==
                 LET days == getDaysUntilExpiry(item.expiry_date) IN
                 IF status = "expired" THEN days < 0
                 ELSE IF status = "expiring" THEN days >= 0 /\ days <= 3
                 ELSE TRUE
         IN SelectSeq(rows, Test)
    ELSE rows

\* useMemo(..., [displayItems, searchQuery, selectedCategory, expiryFilter, sortBy])
filteredAndSortedItems ==
    sortRows(expiryStatusFilter(categoryFilter(searchFilter(displayItems,
        searchQuery), selectedCategory), expiryFilter), sortBy)

\* what the screen can hold: items of different names, categories and dates
ViewPool ==
    { [NewItem(1, Milk, 1, 8) EXCEPT !.category = dairy],
      [NewItem(2, milkSp, 1, 13) EXCEPT !.category = Dairy],
      [NewItem(3, Apple, 1, Today) EXCEPT !.category = fruits],
      [NewItem(4, Apple, 1, 14) EXCEPT !.category = fruits],
      [NewItem(5, Milk, 1, 13) EXCEPT !.category = dairy] }

ViewInputs ==
    UNION { { f \in [1..n -> ViewPool] : \A i, j \in 1..n : f[i] = f[j] => i = j } :
            n \in 0..MaxViewLen }

SearchTexts == { <<" ">>, <<"M", "i">>, <<"p", "p", " ">> }
CATEGORIES == {Dairy, Fruits}
ExpiryFilters == {"all", "expiring", "expired"}
SortKeys == {"expiry", "name", "category"}

InitView ==
    /\ srvItems \in InitialStores
    /\ srvDrafts = InitialDrafts
    /\ srvNextId = 3
    /\ InitDrafts
    /\ InitAddItem
    /\ InitBarcode
    /\ InitFilters
    /\ InitRecipes
    /\ timeZone \in TimeZones
    /\ nowHour \in NowHours
    /\ items \in ViewInputs
    /\ displayItems = syncDisplayItems(items)
    /\ loading = FALSE
    /\ refreshing = FALSE
    /\ selectedItem = Null
    /\ showActionModal = FALSE
    /\ showEditModal = FALSE
    /\ showConsumeModal = FALSE
    /\ actionLoading = FALSE
    /\ editForm = [name |-> <<>>, category |-> <<>>, quantity |-> 1, unit |-> <<>>,
                   expiryDate |-> 0]
    /\ consumeQuantity = 1
    /\ deleteAlert = Null
    /\ invCalls = <<>>
    /\ invFetches = <<>>
    /\ invIssued = 0
    /\ invFetchIssued = 0
    /\ selectedRow = Null

\* the search field
changeSearchQuery(text) ==
    /\ Len(items) > 0
    /\ searchQuery' = text
    /\ UNCHANGED <<barcodeVars, recipeVars, srvVars, invVars, draftVars, addVars, selectedCategory,
                   expiryFilter, sortBy, timeZone, nowHour>>

\* the close-circle of the search field
clearSearch ==
    /\ Len(items) > 0 /\ Len(searchQuery) > 0
    /\ searchQuery' = <<>>
    /\ UNCHANGED <<barcodeVars, recipeVars, srvVars, invVars, draftVars, addVars, selectedCategory,
                   expiryFilter, sortBy, timeZone, nowHour>>

\* the chip "All" of the category row
selectAllCategories ==
    /\ Len(items) > 0
    /\ selectedCategory' = NoCategory
    /\ UNCHANGED <<barcodeVars, recipeVars, srvVars, invVars, draftVars, addVars, searchQuery,
                   expiryFilter, sortBy, timeZone, nowHour>>

\* a category chip
toggleCategory(cat) ==
    /\ Len(items) > 0
    /\ selectedCategory' = IF selectedCategory = cat THEN NoCategory ELSE cat
    /\ UNCHANGED <<barcodeVars, recipeVars, srvVars, invVars, draftVars, addVars, searchQuery,
                   expiryFilter, sortBy, timeZone, nowHour>>

\* a status chip
changeExpiryFilter(status) ==
    /\ Len(items) > 0
    /\ expiryFilter' = status
    /\ UNCHANGED <<barcodeVars, recipeVars, srvVars, invVars, draftVars, addVars, searchQuery,
                   selectedCategory, sortBy, timeZone, nowHour>>

\* a sort chip
changeSortBy(key) ==
    /\ Len(items) > 0
    /\ sortBy' = key
    /\ UNCHANGED <<barcodeVars, recipeVars, srvVars, invVars, draftVars, addVars, searchQuery,
                   selectedCategory, expiryFilter, timeZone, nowHour>>

\* "Clear Filters" of the "No items found" view
clearFilters ==
    /\ ~loading /\ Len(items) > 0 /\ Len(filteredAndSortedItems) = 0
    /\ searchQuery' = <<>>
    /\ selectedCategory' = NoCategory
    /\ expiryFilter' = "all"
    /\ sortBy' = "expiry"
    /\ UNCHANGED <<barcodeVars, recipeVars, srvVars, invVars, draftVars, addVars, timeZone, nowHour>>

NextView ==
    \/ \E text \in SearchTexts : changeSearchQuery(text)
    \/ clearSearch
    \/ selectAllCategories
    \/ \E cat \in CATEGORIES : toggleCategory(cat)
    \/ \E status \in ExpiryFilters : changeExpiryFilter(status)
    \/ \E key \in SortKeys : changeSortBy(key)
    \/ clearFilters

SpecView == InitView /\ [][NextView]_vars

(***************************************************************************)
(* Recipes screen                                                          *)
(***************************************************************************)
\* what the server holds when the screen is opened
RecipeStores ==
    { <<>>,
      << NewItem(1, Apple, 1, 14) >>,
      << NewItem(1, Milk, 2, Today), NewItem(2, Apple, 1, 14), NewItem(3, Milk, 1, 13) >> }

\* { name, quantity, unit, expiry_date } of an inventory item
IngredientInput(item) ==
    [name |-> item.name, quantity |-> item.quantity, unit |-> item.unit,
     expiry_date |-> item.expiry_date]

IngredientInputs(its) == [k \in 1..Len(its) |-> IngredientInput(its[k])]

IngredientNames(sel) == [k \in 1..Len(sel) |-> sel[k].name]

\* selectedIngredients.find((i) => i.name === name) is not undefined
hasName(sel, name) == \E k \in 1..Len(sel) : sel[k].name = name

RECURSIVE withoutName(_, _)
\* selectedIngredients.filter((i) => i.name !== name)
withoutName(sel, name) ==
    IF sel = <<>> THEN <<>>
    ELSE IF Head(sel).name # name
         THEN <<Head(sel)>> \o withoutName(Tail(sel), name)
         ELSE withoutName(Tail(sel), name)

\* toggleIngredient appending the entry whether or not the name is selected
toggledAlwaysAdds(sel, item) == Append(sel, IngredientInput(item))

\* what toggleIngredient makes of the selection
toggled(sel, item) ==
    IF hasName(sel, item.name)
    THEN withoutName(sel, item.name)
    ELSE Append(sel, IngredientInput(item))

RECURSIVE srvExpiring(_)
\* GET /api/recipes/expiring-ingredients?days=3: the items at most 3 days from
\* their expiry date, one entry per name
srvExpiring(stored) ==
    IF stored = <<>> THEN <<>>
    ELSE LET before == srvExpiring(SubSeq(stored, 1, Len(stored) - 1))
             last == stored[Len(stored)]
         IN IF last.expiry_date - Today <= 3 /\ ~hasName(before, last.name)
            THEN Append(before, IngredientInput(last))
            ELSE before

\* POST /api/recipes/generate: the recipes of a response
srvRecipes(request) == << [title |-> "recipe", mode |-> request.mode] >>

recUiFree == recAlert = "none" /\ ~recLoading

\* the second useFocusEffect, run for the given mode and inventoryItems
selectExpiringItems(m, its) ==
    IF m = "expiring" /\ Len(its) > 0
    THEN /\ expiringIssued < MaxExpiringIssued
         /\ expiringCalls' = Append(expiringCalls, [resp |-> "none", data |-> <<>>])
         /\ expiringIssued' = expiringIssued + 1
    ELSE UNCHANGED <<expiringCalls, expiringIssued>>

\* the screen gains focus again: both useFocusEffect callbacks run
focusRecipes ==
    /\ recUiFree
    /\ recFetches = <<>> /\ recFetchIssued < MaxRecFetchIssued
    /\ recLoading' = TRUE
    /\ recFetches' = Append(recFetches, [resp |-> "none", data |-> <<>>])
    /\ recFetchIssued' = recFetchIssued + 1
    /\ selectExpiringItems(recMode, inventoryItems)
    /\ UNCHANGED <<barcodeVars, srvVars, invVars, viewVars, draftVars, addVars, recMode,
                   inventoryItems, selectedIngredients, generating,
                   expiringRecipes, manualRecipes, recAlert, genCalls, genIssued,
                   srvChanges, toggledSince>>

\* the server answers getInventoryItems
srvListRecipeInventory(k) ==
    /\ k \in 1..Len(recFetches)
    /\ recFetches[k].resp = "none"
    /\ \/ recFetches' = [recFetches EXCEPT ![k] = [resp |-> "ok", data |-> srvItems]]
       \/ recFetches' = [recFetches EXCEPT ![k] = [resp |-> "fail", data |-> <<>>]]
    /\ UNCHANGED <<barcodeVars, srvVars, invVars, viewVars, draftVars, addVars, recMode,
                   inventoryItems, selectedIngredients, recLoading, generating,
                   expiringRecipes, manualRecipes, recAlert, expiringCalls,
                   genCalls, recFetchIssued, expiringIssued, genIssued,
                   srvChanges, toggledSince>>

\* fetchInventory after the await, and the effect on [mode, inventoryItems]
recipesFetchInventory(k) ==
    /\ k \in 1..Len(recFetches)
    /\ recFetches[k].resp # "none"
    /\ recAlert = "none"
    /\ IF recFetches[k].resp = "ok"
       THEN /\ inventoryItems' = recFetches[k].data
            /\ selectExpiringItems(recMode, recFetches[k].data)
            /\ UNCHANGED recAlert
       ELSE /\ recAlert' = "Error"
            /\ UNCHANGED <<inventoryItems, expiringCalls, expiringIssued>>
    /\ recLoading' = FALSE
    /\ recFetches' = RemoveAt(recFetches, k)
    /\ UNCHANGED <<barcodeVars, srvVars, invVars, viewVars, draftVars, addVars, recMode,
                   selectedIngredients, generating, expiringRecipes,
                   manualRecipes, genCalls, recFetchIssued, genIssued,
                   srvChanges, toggledSince>>

\* the server answers getExpiringIngredients(3)
srvExpiringIngredients(k) ==
    /\ k \in 1..Len(expiringCalls)
    /\ expiringCalls[k].resp = "none"
    /\ \/ expiringCalls' = [expiringCalls EXCEPT
                               ![k] = [resp |-> "ok", data |-> srvExpiring(srvItems)]]
       \/ expiringCalls' = [expiringCalls EXCEPT
                               ![k] = [resp |-> "fail", data |-> <<>>]]
    /\ UNCHANGED <<barcodeVars, srvVars, invVars, viewVars, draftVars, addVars, recMode,
                   inventoryItems, selectedIngredients, recLoading, generating,
                   expiringRecipes, manualRecipes, recAlert, recFetches,
                   genCalls, recFetchIssued, expiringIssued, genIssued,
                   srvChanges, toggledSince>>

\* selectExpiringItems after the await
resumeSelectExpiring(k) ==
    /\ k \in 1..Len(expiringCalls)
    /\ expiringCalls[k].resp # "none"
    /\ IF expiringCalls[k].resp = "ok"
       THEN selectedIngredients' = expiringCalls[k].data
       ELSE UNCHANGED selectedIngredients
    /\ expiringCalls' = RemoveAt(expiringCalls, k)
    /\ UNCHANGED <<barcodeVars, srvVars, invVars, viewVars, draftVars, addVars, recMode,
                   inventoryItems, recLoading, generating, expiringRecipes,
                   manualRecipes, recAlert, recFetches, genCalls, recFetchIssued,
                   expiringIssued, genIssued, srvChanges, toggledSince>>

\* "Smart Mode"
setModeExpiring ==
    /\ recUiFree
    /\ recMode' = "expiring"
    /\ selectExpiringItems(IF recMode = "expiring" THEN "unchanged" ELSE "expiring",
                           inventoryItems)
    /\ UNCHANGED <<barcodeVars, srvVars, invVars, viewVars, draftVars, addVars, inventoryItems,
                   selectedIngredients, recLoading, generating, expiringRecipes,
                   manualRecipes, recAlert, recFetches, genCalls, recFetchIssued,
                   genIssued, srvChanges, toggledSince>>

\* "Pick Items"
setModeManual ==
    /\ recUiFree
    /\ recMode' = "manual"
    /\ selectedIngredients' = <<>>
    /\ toggledSince' = <<>>
    /\ UNCHANGED <<barcodeVars, srvVars, invVars, viewVars, draftVars, addVars, inventoryItems,
                   recLoading, generating, expiringRecipes, manualRecipes,
                   recAlert, recFetches, expiringCalls, genCalls, recFetchIssued,
                   expiringIssued, genIssued, srvChanges>>

\* "Clear all"
clearAllIngredients ==
    /\ recUiFree /\ recMode = "manual" /\ Len(selectedIngredients) > 0
    /\ selectedIngredients' = <<>>
    /\ toggledSince' = <<>>
    /\ UNCHANGED <<barcodeVars, srvVars, invVars, viewVars, draftVars, addVars, recMode,
                   inventoryItems, recLoading, generating, expiringRecipes,
                   manualRecipes, recAlert, recFetches, expiringCalls, genCalls,
                   recFetchIssued, expiringIssued, genIssued, srvChanges>>

\* a chip that would also take its item out of the screen's inventory
toggleIngredientTakesItem(item) ==
    /\ recUiFree /\ recMode = "manual"
    /\ selectedIngredients' = toggled(selectedIngredients, item)
    /\ inventoryItems' = SeqFilterId(inventoryItems, item.id)
    /\ toggledSince' = (IF hasName(toggledSince, item.name)
                        THEN withoutName(toggledSince, item.name)
                        ELSE Append(toggledSince, IngredientInput(item)))
    /\ UNCHANGED <<barcodeVars, srvVars, invVars, viewVars, draftVars, addVars, recMode,
                   recLoading, generating, expiringRecipes,
                   manualRecipes, recAlert, recFetches, expiringCalls, genCalls,
                   recFetchIssued, expiringIssued, genIssued, srvChanges>>

\* a chip of the inventory list of manual mode
toggleIngredient(item) ==
    /\ recUiFree /\ recMode = "manual"
    /\ selectedIngredients' = toggled(selectedIngredients, item)
    /\ toggledSince' = (IF hasName(toggledSince, item.name)
                        THEN withoutName(toggledSince, item.name)
                        ELSE Append(toggledSince, IngredientInput(item)))
    /\ UNCHANGED <<barcodeVars, srvVars, invVars, viewVars, draftVars, addVars, recMode,
                   inventoryItems, recLoading, generating, expiringRecipes,
                   manualRecipes, recAlert, recFetches, expiringCalls, genCalls,
                   recFetchIssued, expiringIssued, genIssued, srvChanges>>

\* the request handleGenerateRecipes makes, and the render it closes over
GenCall(m, ingredients, names) ==
    [cMode |-> m,
     mode |-> IF m = "expiring" THEN "auto" ELSE "manual",
     ingredients |-> ingredients,
     selected_ingredient_names |-> names,
     cSelected |-> selectedIngredients,
     cInventory |-> inventoryItems,
     cRecipes |-> IF m = "expiring" THEN expiringRecipes ELSE manualRecipes,
     resp |-> "none", recipes |-> <<>>]

\* handleGenerateRecipes sending the whole inventory in manual mode too
ingredientsToSendAll(m) == IngredientInputs(inventoryItems)

\* handleGenerateRecipes sending the priority selection in automatic mode
ingredientsToSendSelected(m) == selectedIngredients

\* ingredientsToSend of handleGenerateRecipes
ingredientsToSend(m) ==
    IF m = "manual" THEN selectedIngredients ELSE IngredientInputs(inventoryItems)

\* handleGenerateRecipes without its two checks
handleGenerateRecipesUnchecked ==
    /\ recUiFree
    /\ genIssued < MaxGenIssued
    /\ generating' = TRUE
    /\ IF recMode = "expiring"
       THEN expiringRecipes' = <<>> /\ UNCHANGED manualRecipes
       ELSE manualRecipes' = <<>> /\ UNCHANGED expiringRecipes
    /\ genCalls' = Append(genCalls,
         GenCall(recMode, ingredientsToSend(recMode),
                 IF recMode = "manual" THEN IngredientNames(selectedIngredients)
                 ELSE <<>>))
    /\ genIssued' = genIssued + 1
    /\ UNCHANGED recAlert
    /\ UNCHANGED <<barcodeVars, srvVars, invVars, viewVars, draftVars, addVars, recMode,
                   inventoryItems, selectedIngredients, recLoading, recFetches,
                   expiringCalls, recFetchIssued, expiringIssued, srvChanges,
                   toggledSince>>

\* handleGenerateRecipes up to its await
handleGenerateRecipes ==
    /\ recUiFree
    /\ \/ /\ recMode = "manual" /\ Len(selectedIngredients) = 0
          /\ recAlert' = "No Ingredients"
          /\ UNCHANGED <<generating, expiringRecipes, manualRecipes, genCalls,
                         genIssued>>
       \/ /\ recMode = "expiring" /\ Len(inventoryItems) = 0
          /\ recAlert' = "No Inventory"
          /\ UNCHANGED <<generating, expiringRecipes, manualRecipes, genCalls,
                         genIssued>>
       \/ /\ ~(recMode = "manual" /\ Len(selectedIngredients) = 0)
          /\ ~(recMode = "expiring" /\ Len(inventoryItems) = 0)
          /\ genIssued < MaxGenIssued
          /\ generating' = TRUE
          /\ IF recMode = "expiring"
             THEN expiringRecipes' = <<>> /\ UNCHANGED manualRecipes
             ELSE manualRecipes' = <<>> /\ UNCHANGED expiringRecipes
          /\ genCalls' = Append(genCalls,
               GenCall(recMode, ingredientsToSend(recMode),
                       IF recMode = "manual" THEN IngredientNames(selectedIngredients)
                       ELSE <<>>))
          /\ genIssued' = genIssued + 1
          /\ UNCHANGED recAlert
    /\ UNCHANGED <<barcodeVars, srvVars, invVars, viewVars, draftVars, addVars, recMode,
                   inventoryItems, selectedIngredients, recLoading, recFetches,
                   expiringCalls, recFetchIssued, expiringIssued, srvChanges,
                   toggledSince>>

\* disabled of the generate button
generateDisabled ==
    \/ recMode = "manual" /\ Len(selectedIngredients) = 0
    \/ recMode = "expiring" /\ Len(inventoryItems) = 0
    \/ generating

\* the generate button
pressGenerate == ~generateDisabled /\ handleGenerateRecipes

\* the server answers generateRecipes
srvGenerateRecipes(k) ==
    /\ k \in 1..Len(genCalls)
    /\ genCalls[k].resp = "none"
    /\ \/ genCalls' = [genCalls EXCEPT ![k].resp = "ok",
                                        ![k].recipes = srvRecipes(genCalls[k])]
       \/ genCalls' = [genCalls EXCEPT ![k].resp = "fail"]
    /\ UNCHANGED <<barcodeVars, srvVars, invVars, viewVars, draftVars, addVars, recMode,
                   inventoryItems, selectedIngredients, recLoading, generating,
                   expiringRecipes, manualRecipes, recAlert, recFetches,
                   expiringCalls, recFetchIssued, expiringIssued, genIssued,
                   srvChanges, toggledSince>>

\* handleGenerateRecipes storing the response in the list of the mode on screen
resumeGenerateRecipesByScreenMode(k) ==
    /\ k \in 1..Len(genCalls)
    /\ genCalls[k].resp # "none"
    /\ recAlert = "none"
    /\ IF genCalls[k].resp = "ok"
       THEN /\ IF recMode = "expiring"
               THEN expiringRecipes' = genCalls[k].recipes /\ UNCHANGED manualRecipes
               ELSE manualRecipes' = genCalls[k].recipes /\ UNCHANGED expiringRecipes
            /\ UNCHANGED recAlert
       ELSE /\ recAlert' = "Error"
            /\ UNCHANGED <<expiringRecipes, manualRecipes>>
    /\ generating' = FALSE
    /\ genCalls' = RemoveAt(genCalls, k)
    /\ UNCHANGED <<barcodeVars, srvVars, invVars, viewVars, draftVars, addVars, recMode,
                   inventoryItems, selectedIngredients, recLoading, recFetches,
                   expiringCalls, recFetchIssued, expiringIssued, genIssued,
                   srvChanges, toggledSince>>

\* handleGenerateRecipes after the await
resumeGenerateRecipes(k) ==
    /\ k \in 1..Len(genCalls)
    /\ genCalls[k].resp # "none"
    /\ recAlert = "none"
    /\ IF genCalls[k].resp = "ok"
       THEN /\ IF genCalls[k].cMode = "expiring"
               THEN expiringRecipes' = genCalls[k].recipes /\ UNCHANGED manualRecipes
               ELSE manualRecipes' = genCalls[k].recipes /\ UNCHANGED expiringRecipes
            /\ UNCHANGED recAlert
       ELSE /\ recAlert' = "Error"
            /\ UNCHANGED <<expiringRecipes, manualRecipes>>
    /\ generating' = FALSE
    /\ genCalls' = RemoveAt(genCalls, k)
    /\ UNCHANGED <<barcodeVars, srvVars, invVars, viewVars, draftVars, addVars, recMode,
                   inventoryItems, selectedIngredients, recLoading, recFetches,
                   expiringCalls, recFetchIssued, expiringIssued, genIssued,
                   srvChanges, toggledSince>>

\* the button of an alert
dismissRecAlert ==
    /\ recAlert # "none"
    /\ recAlert' = "none"
    /\ UNCHANGED <<barcodeVars, srvVars, invVars, viewVars, draftVars, addVars, recMode,
                   inventoryItems, selectedIngredients, recLoading, generating,
                   expiringRecipes, manualRecipes, recFetches, expiringCalls,
                   genCalls, recFetchIssued, expiringIssued, genIssued,
                   srvChanges, toggledSince>>

\* another screen or device consumes or deletes an item of the inventory
srvInventoryChanged ==
    /\ srvChanges < MaxSrvChanges
    /\ \E k \in 1..Len(srvItems) :
         \/ srvItems' = RemoveAt(srvItems, k)
         \/ /\ srvItems[k].quantity > 1
            /\ srvItems' = [srvItems EXCEPT ![k].quantity = 1]
    /\ srvChanges' = srvChanges + 1
    /\ UNCHANGED <<barcodeVars, invVars, viewVars, draftVars, addVars, srvDrafts, srvNextId,
                   recMode, inventoryItems, selectedIngredients, recLoading,
                   generating, expiringRecipes, manualRecipes, recAlert,
                   recFetches, expiringCalls, genCalls, recFetchIssued,
                   expiringIssued, genIssued, toggledSince>>

InitRecipesScreen ==
    /\ srvItems \in RecipeStores
    /\ srvDrafts = InitialDrafts
    /\ srvNextId = 4
    /\ InitInventory
    /\ InitDrafts
    /\ InitAddItem
    /\ InitBarcode
    /\ InitFilters
    /\ InitRecipes
    /\ timeZone = 0
    /\ nowHour = 0

NextRecipes ==
    \/ focusRecipes
    \/ \E k \in 1..MaxRecFetchIssued : srvListRecipeInventory(k)
    \/ \E k \in 1..MaxRecFetchIssued : recipesFetchInventory(k)
    \/ \E k \in 1..MaxExpiringIssued : srvExpiringIngredients(k)
    \/ \E k \in 1..MaxExpiringIssued : resumeSelectExpiring(k)
    \/ setModeExpiring
    \/ setModeManual
    \/ clearAllIngredients
    \/ \E k \in 1..Len(inventoryItems) : toggleIngredient(inventoryItems[k])
    \/ pressGenerate
    \/ \E k \in 1..MaxGenIssued : srvGenerateRecipes(k)
    \/ \E k \in 1..MaxGenIssued : resumeGenerateRecipes(k)
    \/ dismissRecAlert
    \/ srvInventoryChanged

SpecRecipes == InitRecipesScreen /\ [][NextRecipes]_vars

(***************************************************************************)
(* handleGenerateRecipes as a function of the render it is called in: the  *)
(* recipes screen in any mode, with any inventory and selection.           *)
(***************************************************************************)
GenerateSelections(its) ==
    {<<>>, srvExpiring(its)} \cup {<<IngredientInput(its[k])>> : k \in 1..Len(its)}

ShownRecipes(m) == {<<>>, <<[title |-> "recipe", mode |-> m]>>}

InitGenerate ==
    /\ srvItems \in RecipeStores
    /\ srvDrafts = InitialDrafts
    /\ srvNextId = 4
    /\ InitInventory
    /\ InitDrafts
    /\ InitAddItem
    /\ InitBarcode
    /\ InitFilters
    /\ timeZone = 0
    /\ nowHour = 0
    /\ recMode \in {"expiring", "manual"}
    /\ inventoryItems = srvItems
    /\ selectedIngredients \in GenerateSelections(inventoryItems)
    /\ recLoading = FALSE
    /\ generating = FALSE
    /\ expiringRecipes \in ShownRecipes("auto")
    /\ manualRecipes \in ShownRecipes("manual")
    /\ recAlert = "none"
    /\ recFetches = <<>>
    /\ expiringCalls = <<>>
    /\ genCalls = <<>>
    /\ recFetchIssued = 0
    /\ expiringIssued = 0
    /\ genIssued = 0
    /\ srvChanges = 0
    /\ toggledSince = IF recMode = "manual" THEN selectedIngredients ELSE <<>>

NextGenerate ==
    \/ handleGenerateRecipes
    \/ \E k \in 1..MaxGenIssued : srvGenerateRecipes(k)
    \/ \E k \in 1..MaxGenIssued : resumeGenerateRecipes(k)
    \/ dismissRecAlert

SpecGenerate == InitGenerate /\ [][NextGenerate]_vars

NextBarcode ==
    \/ openAddItem
    \/ handleScanBarcode
    \/ \E data \in Barcodes : handleBarcodeScanned(data)
    \/ \E k \in 1..MaxLookupIssued : srvLookupBarcode(k)
    \/ \E k \in 1..MaxLookupIssued : resumeBarcodeScanned(k)
    \/ dismissLookupAlert
    \/ useBarcodeResult
    \/ scanAnotherBarcode
    \/ handleBack

SpecBarcode == Init /\ [][NextBarcode]_vars

(***************************************************************************)
(* The inventory screen while another client changes the inventory.        *)
(***************************************************************************)
NextRefreshRace ==
    \/ NextInventory /\ invIssued' <= MaxRaceIssued
    \/ srvInventoryChanged

SpecRefreshRace == Init /\ [][NextRefreshRace]_vars

(***************************************************************************)
(* One tab in front, the others as mounted, with every response delivered  *)
(* and every continuation run.                                             *)
(***************************************************************************)
inventoryInFront == InitDrafts /\ InitRecipes
draftsInFront == InitInventory /\ InitRecipes
recipesInFront == InitInventory /\ InitDrafts

\* a response arrives or the continuation of a request runs
inventoryDelivery ==
    \/ \E k \in 1..MaxInvFetches : srvListInventory(k) \/ fetchInventory(k)
    \/ \E k \in 1..MaxInvCalls : srvMutateInventory(k) \/ resumeMutation(k)

draftsDelivery ==
    \E k \in 1..MaxDraftFetches : srvListDrafts(k) \/ fetchDrafts(k)

\* the same on the recipes screen, where the alert in front of the screen
\* holds continuations back until it is closed
recipesDelivery ==
    \/ \E k \in 1..MaxRecFetchIssued : srvListRecipeInventory(k) \/ recipesFetchInventory(k)
    \/ \E k \in 1..MaxExpiringIssued : srvExpiringIngredients(k) \/ resumeSelectExpiring(k)
    \/ \E k \in 1..MaxGenIssued : srvGenerateRecipes(k) \/ resumeGenerateRecipes(k)
    \/ dismissRecAlert

\* the inventory tab: its requests and what opens and closes its dialogs
liveInventory ==
    \/ focusInventory
    \/ handleRefresh
    \/ \E row \in {displayItems[i] : i \in 1..Len(displayItems)} : handleItemPress(row)
    \/ closeActionModal
    \/ handleEdit
    \/ closeEditModal
    \/ handleSaveEdit
    \/ handleConsume
    \/ cancelConsume
    \/ confirmConsume
    \/ handleDelete
    \/ alertCancel
    \/ alertDelete
    \/ inventoryDelivery

\* the drafts tab: its list requests
liveDrafts ==
    \/ focusDrafts
    \/ handleRefreshDrafts
    \/ draftsDelivery

NextLive ==
    \/ inventoryInFront /\ liveInventory /\ invIssued' <= MaxLiveIssued
    \/ draftsInFront /\ liveDrafts
    \/ /\ recipesInFront /\ NextRecipes
       /\ srvChanges' = srvChanges /\ recFetchIssued' <= MaxLiveFetchIssued

Delivery ==
    \/ inventoryInFront /\ inventoryDelivery
    \/ draftsInFront /\ draftsDelivery
    \/ recipesInFront /\ recipesDelivery

SpecLive == Init /\ [][NextLive]_vars /\ WF_vars(Delivery)

NextTabs ==
    \/ InitDrafts /\ NextInventory /\ invIssued' <= MaxTabIssued
    \/ /\ InitInventory /\ NextDrafts
       /\ \A d \in DraftIds :
            termIssued'[d].confirm + termIssued'[d].delete <= MaxTabIssued

SpecTabs == Init /\ [][NextTabs]_vars

(***************************************************************************)
(* Claims about the inventory screen (SpecInventory).                      *)
(***************************************************************************)
InFlight == {invCalls[k] : k \in 1..Len(invCalls)}

\* the request resumeMutation takes off invCalls in this step, if it is one
Resumed(k) ==
    /\ k \in 1..Len(invCalls)
    /\ invCalls[k].resp # "none"
    /\ invCalls' = RemoveAt(invCalls, k)

\* C1: every item of the local snapshot has quantity > 0 and no update request
\* carries a quantity <= 0.
C1_QuantityAlwaysPositive ==
    /\ \A k \in 1..Len(items) : items[k].quantity > 0
    /\ \A c \in InFlight : c.op = "update" => c.data.quantity > 0

\* C2: Consume confirmed on a merged row (two or more constituents) with
\* 0 < q < the first constituent's own quantity updates that constituent to
\* (its own quantity - q).
C2_MergedConsumeSubtractsFromOwnQuantity ==
    \A c \in InFlight :
        LET own == FindId(c.cItems, c.id) IN
        (/\ c.kind = "consume"
         /\ c.cRow # Null
         /\ c.cRow.mergedCount >= 2
         /\ own # Null
         /\ 0 < c.q
         /\ c.q < own.quantity)
        => (c.op = "update" /\ c.data.quantity = own.quantity - c.q)

\* the row the dialog was opened on was a single item, of quantity Q
SingleItemConsume(c) ==
    /\ c.kind = "consume"
    /\ c.cRow # Null
    /\ c.cRow.mergedCount = 1
    /\ c.cSel.id = c.cRow.id
    /\ c.cSel.quantity = c.cRow.quantity

\* C3: for a single (unmerged) item of quantity Q, confirming q = Q issues a
\* delete of that item (and no update) and its success removes the item from the
\* snapshot; confirming 0 < q < Q issues an update with quantity Q - q > 0 (and
\* no delete).
C3_SingleItemConsume ==
    /\ [](\A c \in InFlight :
            SingleItemConsume(c) =>
              LET Q == c.cRow.quantity IN
              /\ c.q = Q => (c.op = "delete" /\ c.id = c.cRow.id)
              /\ (0 < c.q /\ c.q < Q) =>
                    /\ c.op = "update"
                    /\ c.id = c.cRow.id
                    /\ c.data = [quantity |-> Q - c.q]
                    /\ Q - c.q > 0)
    /\ [][\A k \in 1..Len(invCalls) :
            (/\ Resumed(k)
             /\ SingleItemConsume(invCalls[k])
             /\ invCalls[k].q = invCalls[k].cRow.quantity
             /\ invCalls[k].resp = "ok")
            => (/\ invCalls[k].cRow.id \notin Ids(items')
                /\ items' = SeqFilterId(invCalls[k].cItems, invCalls[k].cRow.id))]_vars

\* C3 witness: a single item's whole quantity was consumed and the server has
\* answered the delete.
C3_Witness ==
    \E c \in InFlight :
        /\ SingleItemConsume(c)
        /\ c.q = c.cRow.quantity
        /\ c.op = "delete"
        /\ c.resp = "ok"

\* C4: a consumption whose amount is <= 0 issues no update and no delete.
C4_NonPositiveConsumeRejected ==
    \A c \in InFlight : c.kind = "consume" => c.q > 0

\* C9: at most one inventory mutation (edit-save, consume, delete) is in flight,
\* and none is started while actionLoading is set.
C9_OneMutationInFlight == Len(invCalls) <= 1

\* the list request fetchInventory takes off invFetches in this step
FetchResumed(k) ==
    /\ k \in 1..Len(invFetches)
    /\ invFetches[k].resp # "none"
    /\ invFetches' = RemoveAt(invFetches, k)

\* the list request fetchDrafts takes off draftFetches in this step
DraftFetchResumed(k) ==
    /\ k \in 1..Len(draftFetches)
    /\ draftFetches[k].resp # "none"
    /\ draftFetches' = RemoveAt(draftFetches, k)

\* the request resumeDraftCall takes off draftCalls in this step
DraftResumed(k) ==
    /\ k \in 1..Len(draftCalls)
    /\ draftCalls[k].resp # "none"
    /\ draftCalls' = RemoveAt(draftCalls, k)

\* C11: when a fetch, edit-save, consume, delete or confirm request fails, the
\* step that handles the failure leaves the local collection (items and the
\* rows shown, or drafts) as it was, clears the loading flags of the operation
\* and leaves the dialog and the selection the action was started from in
\* place, so that the action can be started again.
C11_FailureLeavesStateUnchanged ==
    [][/\ \A k \in 1..Len(invFetches) :
            (FetchResumed(k) /\ invFetches[k].resp = "fail")
            => (/\ items' = items /\ displayItems' = displayItems
                /\ ~loading' /\ ~refreshing')
       /\ \A k \in 1..Len(invCalls) :
            (Resumed(k) /\ invCalls[k].resp = "fail")
            => (/\ items' = items /\ displayItems' = displayItems
                /\ ~actionLoading'
                /\ selectedItem' = selectedItem
                /\ showActionModal' = showActionModal
                /\ showEditModal' = showEditModal
                /\ showConsumeModal' = showConsumeModal
                /\ editForm' = editForm /\ consumeQuantity' = consumeQuantity)
       /\ \A k \in 1..Len(draftFetches) :
            (DraftFetchResumed(k) /\ draftFetches[k].resp = "fail")
            => (drafts' = drafts /\ ~draftsLoading' /\ ~draftsRefreshing')
       /\ \A k \in 1..Len(draftCalls) :
            (DraftResumed(k) /\ draftCalls[k].resp = "fail")
            => (/\ drafts' = drafts
                /\ selectedDraft' = selectedDraft
                /\ confirmData' = confirmData)]_vars

\* C11 witness: the one mutation issued so far was an edit-save that failed:
\* nothing is stored, the snapshot is the fetched one, the edit dialog is still
\* open on the selected item and actionLoading is cleared.
C11_Witness ==
    /\ invIssued = 1 /\ invCalls = <<>>
    /\ srvItems \in InitialStores
    /\ items = SortByExpiry(srvItems)
    /\ showEditModal /\ selectedItem # Null /\ ~actionLoading

\* a and b hold the same records, in whatever order
SameItems(a, b) ==
    /\ Len(a) = Len(b)
    /\ \A x \in {a[i] : i \in 1..Len(a)} \cup {b[i] : i \in 1..Len(b)} :
         Cardinality({i \in 1..Len(a) : a[i] = x})
           = Cardinality({i \in 1..Len(b) : b[i] = x})

\* C12: a list response that arrives replaces the snapshot wholesale with what
\* it carries, whatever the snapshot holds; so a refresh answered before an
\* edit-save was stored and delivered after the edit's response puts the
\* pre-edit values back (the witness).
C12_RefreshReplacesSnapshot ==
    [][\A k \in 1..Len(invFetches) :
         (FetchResumed(k) /\ invFetches[k].resp = "ok")
         => SameItems(items', invFetches[k].data)]_vars

\* C12 witness: the only mutation issued was an edit-save that renamed an item;
\* it is stored and its response was handled, no request is pending, and the
\* snapshot shows the item under its old name again.
C12_Witness ==
    /\ invIssued = 1 /\ invCalls = <<>> /\ invFetches = <<>>
    /\ \E i \in 1..Len(items) : \E j \in 1..Len(srvItems) :
         /\ items[i].id = srvItems[j].id
         /\ srvItems[j].name = milkSp
         /\ items[i].name = Milk

\* C13: at most one of the action sheet, the edit dialog and the consume
\* dialog is visible.
C13_AtMostOneDialog ==
    /\ ~(showActionModal /\ showEditModal)
    /\ ~(showActionModal /\ showConsumeModal)
    /\ ~(showEditModal /\ showConsumeModal)

\* C13 witness: the edit dialog has replaced the action sheet it was opened
\* from, and a request is pending.
C13_Witness ==
    /\ showEditModal /\ ~showActionModal /\ ~showConsumeModal
    /\ invCalls # <<>> /\ actionLoading

RECURSIVE SumOfIds(_, _)
\* the sum of the quantities of the items of its whose id is in ids
SumOfIds(its, ids) ==
    IF its = <<>> THEN 0
    ELSE (IF Head(its).id \in ids THEN Head(its).quantity ELSE 0)
         + SumOfIds(Tail(its), ids)

DraftsInFlight == {draftCalls[k] : k \in 1..Len(draftCalls)}

\* C5: for every draft at most one terminal request (confirmDraftItem or
\* deleteDraftItem) is ever issued, and never both a confirm and a delete.
C5_AtMostOneTerminalCall ==
    \A d \in DraftIds : termIssued[d].confirm + termIssued[d].delete <= 1

\* C6: handleConfirm with an empty expiry_date issues no confirmDraftItem
\* request (and so creates no inventory item).
C6_NoConfirmWithoutExpiry ==
    \A c \in DraftsInFlight : c.kind = "confirm" => c.data.expiry_date # NoDate

\* C16: when the draft has no expiration_date, the expiry_date of the
\* confirmation form, and of a confirm request made of it, is empty or what the
\* user typed in the dialog, never a date nobody entered.
C16_NoSilentDefault ==
    /\ (selectedDraft # Null /\ selectedDraft.expiration_date = NoDate)
         => confirmData.expiry_date \in ConfirmDateTexts
    /\ \A c \in DraftsInFlight :
         (/\ c.kind = "confirm"
          /\ FindId(c.cDrafts, c.id) # Null
          /\ FindId(c.cDrafts, c.id).expiration_date = NoDate)
         => c.data.expiry_date \in ConfirmDateTexts

\* C8: a draft whose confirm or delete succeeded is not in the local pending
\* list afterwards, until a list response delivers it again.
C8_RetiredDraftNotListed ==
    \A d \in draftRetired : d \notin Ids(drafts)

(***************************************************************************)
(* Claims about the add-item screen (SpecAddItem).                         *)
(***************************************************************************)
\* C7: once confirmItem has succeeded for an item an image scan detected, a
\* confirm was issued for the detected draft's own id and that draft is no
\* longer among the server's pending drafts.
C7_DetectedDraftRetired ==
    \A d \in detectedConfirmed : d \in addTermIssued /\ d \notin Ids(srvDrafts)

\* C10: at most one addToInventory sequence started by the screen that is
\* open is in flight at any time.
C10_OneAddInFlight ==
    Cardinality({k \in 1..Len(addCalls) :
                    addCalls[k].kind = "add" /\ addCalls[k].live}) <= 1

AddInFlight == {addCalls[k] : k \in 1..Len(addCalls)}

\* the addToInventory sequence whose promise settles in this step
AddResumed(k) ==
    /\ k \in 1..Len(addCalls)
    /\ addSettled(addCalls[k])
    /\ addCalls' = RemoveAt(addCalls, k)

\* C14: addToInventory issues confirm-draft only after create-draft succeeded
\* and for the id create returned; after a failed create no confirm is issued;
\* when the confirm fails the created draft stays among the server's pending
\* drafts, and a failure of either request reaches the caller, which reports no
\* success and changes neither detectedItems nor the server.
C14_CreateThenConfirm ==
    /\ [](\A c \in AddInFlight :
            /\ (c.kind = "add" /\ c.phase = "create" /\ c.resp # "ok") => c.draftId = 0
            /\ (c.kind = "add" /\ c.phase = "confirm" /\ c.resp # "ok") =>
                  /\ c.draftId \in addTermIssued
                  /\ FindId(srvDrafts, c.draftId) # Null
                  /\ FindId(srvDrafts, c.draftId).name = c.data.name
                  /\ FindId(srvDrafts, c.draftId).expiration_date = c.data.expiry_date)
    /\ [][/\ addTermIssued' # addTermIssued =>
              \E k \in 1..Len(addCalls) :
                 /\ addCalls[k].phase = "create" /\ addCalls[k].resp = "ok"
                 /\ addCalls[k].draftId \in Ids(srvDrafts)
                 /\ addTermIssued' = addTermIssued \cup {addCalls[k].draftId}
          /\ \A k \in 1..Len(addCalls) :
                (AddResumed(k) /\ addCalls[k].resp = "fail") =>
                   /\ addAlerts' = addAlerts
                   /\ detectedItems' = detectedItems
                   /\ detectedConfirmed' = detectedConfirmed
                   /\ srvDrafts' = srvDrafts /\ srvItems' = srvItems]_vars

\* C14 witness: create-draft succeeded and the confirm of that draft failed:
\* the draft is an orphan among the pending drafts.
C14_Witness ==
    \E c \in AddInFlight :
        /\ c.kind = "add" /\ c.phase = "confirm" /\ c.resp = "fail"
        /\ c.draftId \in Ids(srvDrafts)

\* C15: no addToInventory is started for a detected item without expiryDate,
\* nor for a manual form without expiryDate or with a blank name; loading is
\* set only by a step that issues a request, and the step that sends the user
\* to the edit dialog changes neither detectedItems, nor loading, nor the
\* requests in flight, nor the server.
C15_ValidationBlocksCalls ==
    /\ [](\A c \in AddInFlight :
            c.kind = "add" =>
              /\ c.data.expiry_date # NoDate
              /\ c.cItem # Null => c.cItem.expiryDate # NoDate
              /\ c.cItem = Null => trim(c.data.name) # <<>>)
    /\ [][/\ (addLoading' /\ ~addLoading) => Len(addCalls') = Len(addCalls) + 1
          /\ (addShowEditModal' /\ ~addShowEditModal) =>
                /\ detectedItems' = detectedItems
                /\ addLoading' = addLoading
                /\ addCalls' = addCalls
                /\ srvDrafts' = srvDrafts /\ srvItems' = srvItems]_vars

\* C15 witness: a detected item without a date is in the edit dialog, and no
\* request was issued for it.
C15_Witness ==
    /\ mode = "detected" /\ addShowEditModal
    /\ editingItem # Null /\ editingItem.expiryDate = NoDate
    /\ addIssued = 0 /\ addCalls = <<>> /\ ~addLoading

RECURSIVE SumQuantity(_)
SumQuantity(s) == IF s = <<>> THEN 0 ELSE Head(s).quantity + SumQuantity(Tail(s))

SeqToSet(s) == {s[i] : i \in 1..Len(s)}

\* C17: the quantities of the rows mergeInventoryItems returns add up to the
\* quantities of the items it was given, for the list as merged and as shown.
C17_MergePreservesTotal ==
    /\ SumQuantity(mergeInventoryItems(items)) = SumQuantity(items)
    /\ displayItems # <<>> => SumQuantity(displayItems) = SumQuantity(items)

\* C17 witness: three items were merged into two rows.
C17_Witness ==
    /\ Len(items) = 3 /\ Len(displayItems) = 2
    /\ SumQuantity(items) > 3

\* (merge key, summed quantity, mergedCount) of every row
MergeTriples(rows) ==
    {<<mergeKey(r), r.quantity, r.mergedCount>> : r \in SeqToSet(rows)}

Permuted(s, p) == [i \in 1..Len(s) |-> s[p[i]]]

\* C18: whatever the order of the items given to mergeInventoryItems, the set
\* of (merge key, summed quantity, mergedCount) of its rows is the same.
C18_MergeOrderIndependent ==
    /\ \A p \in Permutations(1..Len(items)) :
         MergeTriples(mergeInventoryItems(Permuted(items, p)))
           = MergeTriples(mergeInventoryItems(items))
    /\ displayItems # <<>> =>
         MergeTriples(displayItems) = MergeTriples(mergeInventoryItems(items))

\* C18 witness: the two items of one key are separated by an item of another
\* key, and the list was merged.
C18_Witness ==
    /\ Len(items) = 3 /\ displayItems # <<>>
    /\ mergeKey(items[1]) = mergeKey(items[3])
    /\ mergeKey(items[1]) # mergeKey(items[2])
    /\ items[1].quantity # items[3].quantity

\* names equal after trim and lower-casing, and equal expiry_date
SameNameAndExpiry(a, b) ==
    /\ trim(toLowerCase(a.name)) = trim(toLowerCase(b.name))
    /\ a.expiry_date = b.expiry_date

RowsHolding(rows, id) ==
    {r \in 1..Len(rows) : id \in SeqToSet(rows[r].mergedIds)}

\* C19: two items are in the same merged row exactly when their names are
\* equal after trim and lower-casing and their expiry_date is equal; the id of
\* every item is in mergedIds of exactly one row, once; mergedCount of a row is
\* the length of its mergedIds.
C19_MergeGroupsByNameAndExpiry ==
    LET rows == mergeInventoryItems(items) IN
    /\ \A i, j \in 1..Len(items) :
         (RowsHolding(rows, items[i].id) \cap RowsHolding(rows, items[j].id) # {})
           <=> SameNameAndExpiry(items[i], items[j])
    /\ \A i \in 1..Len(items) : Cardinality(RowsHolding(rows, items[i].id)) = 1
    /\ \A r \in 1..Len(rows) :
         /\ rows[r].mergedCount = Len(rows[r].mergedIds)
         /\ Cardinality(SeqToSet(rows[r].mergedIds)) = Len(rows[r].mergedIds)
         /\ SeqToSet(rows[r].mergedIds) \subseteq Ids(items)
    /\ displayItems # <<>> => SeqToSet(displayItems) = SeqToSet(rows)

\* C19 witness: two items whose names differ only in case and trailing space
\* share a row, and an item of the same name with another date has its own.
C19_Witness ==
    /\ Len(items) = 3 /\ Len(displayItems) = 2
    /\ items[1].name = Milk /\ items[2].name = milkSp /\ items[3].name = Milk
    /\ items[1].expiry_date = items[2].expiry_date
    /\ items[3].expiry_date # items[1].expiry_date
    /\ \E r \in SeqToSet(displayItems) : r.mergedIds = <<1, 2>>

\* the constituents of a row other than the first
OtherIds(row) == SeqToSet(row.mergedIds) \ {row.mergedIds[1]}

\* C21: a consume or a delete started on a merged row issues one request, for
\* the row's first constituent (mergedIds[0]); no request in flight for the row
\* targets another constituent, and the continuation of the request leaves the
\* other constituents of the row as they were in the snapshot.
C21_MergedRowTargetsFirstConstituent ==
    /\ [](\A c \in InFlight :
            (c.kind \in {"consume", "delete"} /\ c.cRow # Null) =>
               c.id = c.cRow.mergedIds[1])
    /\ [][/\ (invIssued' # invIssued) =>
               /\ invIssued' = invIssued + 1
               /\ Len(invCalls') = Len(invCalls) + 1
               /\ SubSeq(invCalls', 1, Len(invCalls)) = invCalls
          /\ \A k \in 1..Len(invCalls) :
               (/\ Resumed(k)
                /\ invCalls[k].kind \in {"consume", "delete"}
                /\ invCalls[k].cRow # Null) =>
                  \A id \in OtherIds(invCalls[k].cRow) :
                     FindId(items', id) = FindId(items, id)]_vars

\* C22: getDaysUntilExpiry is the number of calendar days from today to the
\* expiry date, for every date an item of the screen carries, and for the
\* dates 8, 10, 13, 14 with today = 10 it gives -2, 0, 3, 4: expired,
\* expiring, expiring, fresh.
C22_DaysUntilExpiryIsCalendarDifference ==
    /\ \A r \in SeqToSet(displayItems) :
         getDaysUntilExpiry(r.expiry_date) = r.expiry_date - Today
    /\ getDaysUntilExpiry(8) = -2 /\ statusOf(getDaysUntilExpiry(8)) = "expired"
    /\ getDaysUntilExpiry(Today) = 0
    /\ statusOf(getDaysUntilExpiry(Today)) = "expiringSoon"
    /\ getDaysUntilExpiry(13) = 3 /\ statusOf(getDaysUntilExpiry(13)) = "expiringSoon"
    /\ getDaysUntilExpiry(14) = 4 /\ statusOf(getDaysUntilExpiry(14)) = "fresh"

\* the predicates of the three filters, the bucket taken from the calendar
\* days between today and the row's expiry_date
MatchesFilters(r) ==
    /\ \/ trim(searchQuery) = <<>>
       \/ includes(toLowerCase(r.name), toLowerCase(trim(searchQuery)))
    /\ \/ selectedCategory = NoCategory
       \/ toLowerCase(r.category) = toLowerCase(selectedCategory)
    /\ expiryFilter = "expired" => r.expiry_date - Today < 0
    /\ expiryFilter = "expiring" =>
          (r.expiry_date - Today >= 0 /\ r.expiry_date - Today <= 3)

\* the rows left by the three filters applied in each of the six orders
FilterOrders(rows) ==
    { expiryStatusFilter(categoryFilter(searchFilter(rows, searchQuery),
                                        selectedCategory), expiryFilter),
      categoryFilter(expiryStatusFilter(searchFilter(rows, searchQuery),
                                        expiryFilter), selectedCategory),
      expiryStatusFilter(searchFilter(categoryFilter(rows, selectedCategory),
                                      searchQuery), expiryFilter),
      searchFilter(expiryStatusFilter(categoryFilter(rows, selectedCategory),
                                      expiryFilter), searchQuery),
      categoryFilter(searchFilter(expiryStatusFilter(rows, expiryFilter),
                                  searchQuery), selectedCategory),
      searchFilter(categoryFilter(expiryStatusFilter(rows, expiryFilter),
                                  selectedCategory), searchQuery) }

\* C23: filteredAndSortedItems holds exactly the rows of displayItems that
\* satisfy the search, the category and the expiry predicate, each row once;
\* the six orders of applying the filters leave the same rows; an empty
\* displayItems gives the empty sequence.
C23_FilteredIsExactlyTheMatches ==
    /\ SeqToSet(filteredAndSortedItems)
         = {r \in SeqToSet(displayItems) : MatchesFilters(r)}
    /\ Len(filteredAndSortedItems)
         = Cardinality({r \in SeqToSet(displayItems) : MatchesFilters(r)})
    /\ \A rows \in FilterOrders(displayItems) :
         SeqToSet(rows) = SeqToSet(filteredAndSortedItems)
    /\ displayItems = <<>> => filteredAndSortedItems = <<>>

\* C24: filteredAndSortedItems is in the order of sortBy: by expiry_date for
\* 'expiry', by name for 'name', by category and, within a category, by
\* expiry_date for 'category' (strings in the order of localeCompare).
C24_SortedBySortKey ==
    LET r == filteredAndSortedItems IN
    \A i, j \in 1..Len(r) :
       i < j =>
         /\ sortBy = "expiry" => r[i].expiry_date <= r[j].expiry_date
         /\ sortBy = "name" => localeCompare(r[i].name, r[j].name) <= 0
         /\ sortBy = "category" =>
               /\ localeCompare(r[i].category, r[j].category) <= 0
               /\ r[i].category = r[j].category =>
                     r[i].expiry_date <= r[j].expiry_date

\* C24 witness: three rows are shown by category, in another order than
\* displayItems holds them.
C24_Witness ==
    /\ sortBy = "category"
    /\ Len(filteredAndSortedItems) = 3
    /\ filteredAndSortedItems # displayItems

\* C25: for every category, filtering displayItems by it and then sorting by
\* name leaves the same rows as sorting by name and then filtering.
C25_FilterAndSortCommute ==
    \A cat \in CATEGORIES \cup {NoCategory} :
       SeqToSet(sortRows(categoryFilter(displayItems, cat), "name"))
         = SeqToSet(categoryFilter(sortRows(displayItems, "name"), cat))

\* C25 witness: the rows of one category are shown by name, some rows are
\* filtered out and the order by name is not the order of displayItems.
C25_Witness ==
    /\ selectedCategory = Dairy /\ sortBy = "name"
    /\ Len(filteredAndSortedItems) = 2 /\ Len(displayItems) = 3
    /\ sortRows(displayItems, "name") # displayItems

GenInFlight == {genCalls[k] : k \in 1..Len(genCalls)}

\* C26: a generate request made in manual mode carries exactly the selection
\* of the moment: the same entries in the same order, their names as
\* selected_ingredient_names; an entry is what toggleIngredient captured of
\* the item, and neither a list response nor a change of the inventory
\* alters the selection.
C26_ManualRequestIsTheSelection ==
    /\ [](\A c \in GenInFlight :
            c.cMode = "manual" =>
              /\ c.mode = "manual"
              /\ c.ingredients = c.cSelected
              /\ Len(c.ingredients) > 0
              /\ c.selected_ingredient_names = IngredientNames(c.cSelected))
    /\ [][/\ (recMode = "manual" /\ genIssued' # genIssued) =>
               /\ Len(genCalls') = Len(genCalls) + 1
               /\ genCalls'[Len(genCalls')].ingredients = selectedIngredients
               /\ selectedIngredients' = selectedIngredients
          /\ (inventoryItems' # inventoryItems \/ srvItems' # srvItems) =>
               selectedIngredients' = selectedIngredients
          /\ (recMode = "manual" /\ Len(selectedIngredients') > Len(selectedIngredients)
                /\ expiringCalls' = expiringCalls) =>
               \E k \in 1..Len(inventoryItems) :
                  selectedIngredients' =
                     Append(selectedIngredients, IngredientInput(inventoryItems[k]))]_vars

\* C26 witness: a manual request carries two entries, one of them with the
\* quantity it had when it was toggled and no longer has in the inventory.
C26_Witness ==
    \E c \in GenInFlight :
        /\ c.cMode = "manual" /\ Len(c.ingredients) = 2
        /\ c.ingredients = toggledSince
        /\ Len(c.cInventory) = 3
        /\ \E i \in 1..2 : \E k \in 1..3 :
              /\ c.ingredients[i].name = c.cInventory[k].name
              /\ c.ingredients[i].expiry_date = c.cInventory[k].expiry_date
              /\ c.ingredients[i].quantity # c.cInventory[k].quantity

\* C27: in manual mode the selection is what the user toggled since manual
\* mode was entered or the selection cleared, and nothing else.
C27_ManualSelectionOnlyToggled ==
    recMode = "manual" => selectedIngredients = toggledSince

\* C29: in manual mode no two entries of the selection have the same name.
C29_NoDuplicateNames ==
    recMode = "manual" =>
       \A i, j \in 1..Len(selectedIngredients) :
          selectedIngredients[i].name = selectedIngredients[j].name => i = j

\* C29 witness: the inventory holds two items of one name, one of them was
\* toggled in and the selection holds one entry of that name besides another.
C29_Witness ==
    /\ recMode = "manual" /\ Len(selectedIngredients) = 2
    /\ \E i, j \in 1..Len(inventoryItems) :
          /\ i # j /\ inventoryItems[i].name = inventoryItems[j].name
          /\ hasName(selectedIngredients, inventoryItems[i].name)

\* C30: a generate request made in automatic mode carries name, quantity,
\* unit and expiry_date of every item of inventoryItems, in their order,
\* whatever the priority selection holds.
C30_AutomaticRequestIsTheInventory ==
    \A c \in GenInFlight :
       c.cMode = "expiring" =>
         /\ c.mode = "auto"
         /\ Len(c.cInventory) > 0
         /\ c.ingredients = IngredientInputs(c.cInventory)

\* C30 witness: an automatic request was made with a priority selection that
\* is a proper part of the inventory.
C30_Witness ==
    \E c \in GenInFlight :
        /\ c.cMode = "expiring"
        /\ Len(c.cSelected) > 0 /\ Len(c.cSelected) < Len(c.cInventory)

\* the render in which handleGenerateRecipes has to refuse
GenerateRefused ==
    \/ recMode = "manual" /\ Len(selectedIngredients) = 0
    \/ recMode = "expiring" /\ Len(inventoryItems) = 0

\* C28: handleGenerateRecipes called in manual mode with an empty selection
\* or in automatic mode with an empty inventory issues no generateRecipes
\* request and leaves the recipes, the selection and generating as they
\* were; no request in flight was made from such a render.
C28_EmptyGenerateRejected ==
    /\ [](\A c \in GenInFlight :
            /\ c.cMode = "manual" => Len(c.cSelected) > 0
            /\ c.cMode = "expiring" => Len(c.cInventory) > 0)
    /\ [][(recUiFree /\ GenerateRefused) =>
             /\ genCalls' = genCalls /\ genIssued' = genIssued
             /\ expiringRecipes' = expiringRecipes
             /\ manualRecipes' = manualRecipes
             /\ selectedIngredients' = selectedIngredients
             /\ generating' = generating]_vars

\* C28 witness: the handler was called in manual mode with nothing selected:
\* the alert is up, nothing was requested and the recipes shown are still there.
C28_Witness ==
    /\ recAlert = "No Ingredients"
    /\ recMode = "manual" /\ selectedIngredients = <<>>
    /\ genCalls = <<>> /\ genIssued = 0 /\ ~generating
    /\ manualRecipes # <<>>

\* C31: toggling an ingredient, selecting the expiring items and generating
\* recipes leave inventoryItems of the recipes screen and the inventory the
\* backend holds as they are and issue no update or delete request: only the
\* completion of the screen's own list request replaces inventoryItems, and
\* only another client changes the stored inventory.
C31_RecipesNeverMutateInventory ==
    [][(recFetches' = recFetches /\ srvChanges' = srvChanges) =>
         /\ inventoryItems' = inventoryItems
         /\ invCalls' = invCalls /\ invIssued' = invIssued
         /\ srvItems' = srvItems]_vars

\* C31 witness: ingredients were toggled, the expiring items were selected
\* and recipes were generated, and the whole inventory is still there.
C31_Witness ==
    /\ toggledSince # <<>> /\ expiringIssued > 0
    /\ genIssued > 0 /\ genCalls = <<>> /\ manualRecipes # <<>>
    /\ Len(inventoryItems) = 3 /\ inventoryItems = srvItems
    /\ invCalls = <<>>

\* C32: when a generateRecipes request fails, the recipes shown for its
\* mode are those shown when the request was made.
C32_FailureKeepsRecipes ==
    [][\A k \in 1..Len(genCalls) :
         (genCalls[k].resp = "fail" /\ genCalls' = RemoveAt(genCalls, k)) =>
             IF genCalls[k].cMode = "expiring"
             THEN expiringRecipes' = genCalls[k].cRecipes
             ELSE manualRecipes' = genCalls[k].cRecipes]_vars

\* C33: the response of a generateRecipes request is stored in the recipe
\* list of the mode the request was started in, whatever mode is on screen
\* when it arrives, and the request, when started and when completed,
\* leaves the list of the other mode as it was.
C33_ResponseStoredInStartingMode ==
    [][/\ \A k \in 1..Len(genCalls) :
            (genCalls[k].resp = "ok" /\ genCalls' = RemoveAt(genCalls, k)) =>
                IF genCalls[k].cMode = "expiring"
                THEN /\ expiringRecipes' = genCalls[k].recipes
                     /\ manualRecipes' = manualRecipes
                ELSE /\ manualRecipes' = genCalls[k].recipes
                     /\ expiringRecipes' = expiringRecipes
       /\ Len(genCalls') > Len(genCalls) =>
            IF recMode = "expiring" THEN manualRecipes' = manualRecipes
            ELSE expiringRecipes' = expiringRecipes]_vars

\* C33 witness: the response of a request started in automatic mode has
\* arrived and is about to be stored while manual mode is on screen.
C33_Witness ==
    /\ recMode = "manual" /\ recAlert = "none"
    /\ \E c \in GenInFlight : c.cMode = "expiring" /\ c.resp = "ok"

\* the lookupBarcode requests of the mounted screen that are in flight
LookupsInFlight ==
    {k \in 1..Len(lookupCalls) : lookupCalls[k].live /\ lookupCalls[k].resp = "none"}

\* C34: a lookupBarcode request is started only for a barcode other than
\* the one of the latest lookup since the scan was reset (so callbacks
\* repeating a barcode start one lookup), and only while no other lookup of
\* the screen is in flight.
C34_OneLookupPerScan ==
    [][Len(lookupCalls') > Len(lookupCalls) =>
         /\ lookupCalls'[Len(lookupCalls')].data # lastLookup
         /\ LookupsInFlight = {}]_vars

\* a mutation applied to a snapshot
applied(its, c) ==
    IF c.op = "delete" THEN SeqFilterId(its, c.cSel.id)
    ELSE SeqReplaceId(its, c.result)

\* C35: when the only mutation issued so far completes with success and a
\* refresh has replaced the snapshot since it was started, the new snapshot
\* is the refreshed one with the mutation applied.
C35_MutationKeepsRefresh ==
    [][\A k \in 1..Len(invCalls) :
         (/\ invCalls[k].resp = "ok" /\ invCalls' = RemoveAt(invCalls, k)
          /\ invIssued = 1 /\ items # invCalls[k].cItems) =>
             items' = applied(items, invCalls[k])]_vars

\* C36: actionLoading is true exactly when an update or delete request of
\* the inventory screen is in flight.
C36_ActionLoadingIffInFlight == actionLoading <=> (invCalls # <<>>)

\* C37: while the edit dialog or the consume dialog is visible, selectedItem
\* is not null.
C37_DialogHasSelectedItem ==
    (showEditModal \/ showConsumeModal) => selectedItem # Null

\* an edit request made from a merged row with the form as handleEdit filled it
UnchangedMergedEdit(c) ==
    /\ c.kind = "edit"
    /\ Len(c.cRow.mergedIds) >= 2
    /\ c.data = [name |-> c.cSel.name,
                 category |-> toLowerCase(c.cSel.category),
                 quantity |-> c.cSel.quantity,
                 unit |-> toLowerCase(c.cSel.unit),
                 expiry_date |-> c.cSel.expiry_date]

\* C38: the server applying an edit saved from a merged row of two or more
\* constituents with no form field changed leaves the sum of the quantities
\* of the inventory as it was.
C38_UnchangedEditKeepsTotal ==
    [][\A k \in 1..Len(invCalls) :
         (/\ UnchangedMergedEdit(invCalls[k])
          /\ invCalls[k].resp = "none"
          /\ Len(invCalls') = Len(invCalls) /\ invCalls'[k].resp = "ok") =>
             SumQuantity(srvItems') = SumQuantity(srvItems)]_vars

====
